---- MODULE Spec2Model ----
(***************************************************************************)
(* A model of the fpe poker engine (beldmian/fpe): the MCCFR solver of     *)
(* src/src/solver (regret table, traversal, convergence tracking, strategy *)
(* extraction), the stub entry point of src/src/solver/cfr.rs and the data *)
(* model of src/src/models that they work on.                              *)
(*                                                                         *)
(* f64 quantities are modelled as exact rationals <<n, d>> (d > 0, lowest  *)
(* terms), so equalities and orderings are those of the real numbers the   *)
(* floating-point code approximates.                                       *)
(***************************************************************************)
EXTENDS Integers, Sequences, FiniteSets, TLC

----------------------------------------------------------------------------
(* Bounds of the model.                                                    *)

\* Largest config.iterations drawn.
MaxIter == 3
\* Seeds 0..MaxSeed are drawn for config.seed.
MaxSeed == 7
\* Longest regret vector drawn for the regret-matching specification.
MaxLen == 3
\* Regret components are drawn from -MaxRegret..MaxRegret there.
MaxRegret == 2
\* Most calls made on one RegretTable and its ConvergenceTracker.
MaxCalls == 5
\* Most actions taken along one path of the game tree.
MaxDepth == 5

----------------------------------------------------------------------------
(* f64 arithmetic, as exact rationals.                                     *)

Abs(x) == IF x < 0 THEN -x ELSE x

RECURSIVE Gcd(_, _)
Gcd(a, b) == IF b = 0 THEN a ELSE Gcd(b, a % b)

\* The rational n/d (d # 0) in lowest terms with a positive denominator.
Q(n, d) ==
    LET s == IF d < 0 THEN -1 ELSE 1
        g == Gcd(Abs(n), Abs(d))
    IN  IF n = 0 THEN <<0, 1>> ELSE <<(s * n) \div g, Abs(d) \div g>>

Zero == <<0, 1>>
One == <<1, 1>>

QAdd(a, b) ==
    LET g == Gcd(a[2], b[2])
    IN  Q(a[1] * (b[2] \div g) + b[1] * (a[2] \div g), (a[2] \div g) * b[2])
QNeg(a) == <<-a[1], a[2]>>
QSub(a, b) == QAdd(a, QNeg(b))
QMul(a, b) ==
    LET g1 == Gcd(Abs(a[1]), b[2])
        g2 == Gcd(Abs(b[1]), a[2])
    IN  IF a[1] = 0 \/ b[1] = 0 THEN Zero
        ELSE Q((a[1] \div g1) * (b[1] \div g2), (a[2] \div g2) * (b[2] \div g1))
QDiv(a, b) == QMul(a, Q(b[2], b[1]))
QLt(a, b) == a[1] * b[2] < b[1] * a[2]
QLe(a, b) == a[1] * b[2] <= b[1] * a[2]
QMin(a, b) == IF QLe(a, b) THEN a ELSE b
QMax(a, b) == IF QLe(a, b) THEN b ELSE a
QAbs(a) == <<Abs(a[1]), a[2]>>

RECURSIVE QSum(_)
QSum(s) == IF s = <<>> THEN Zero ELSE QAdd(Head(s), QSum(Tail(s)))

\* vec![x; n]
Repeat(x, n) == [k \in 1..n |-> x]

----------------------------------------------------------------------------
(* models/card.rs, models/hand.rs: a card is <<rank, suit>>, a hand the    *)
(* array <<card1, card2>> in the order given (Hand derives PartialEq on    *)
(* the array, so the order counts).                                        *)

\* enum Suit, in declaration order (the derived Ord).
Hearts == 0
Diamonds == 1
Clubs == 2
Spades == 3

Card_new(rank, suit) == <<rank, suit>>
Hand_new(card1, card2) == <<card1, card2>>

\* A &str is the sequence of its chars, a char being a one-character string
\* or "U+00E9" (e with acute accent), whose UTF-8 encoding has two bytes.
Utf8Len(c) == IF c = "U+00E9" THEN 2 ELSE 1

RECURSIVE str_len(_)
\* str::len: the length in bytes.
str_len(s) == IF s = <<>> THEN 0 ELSE Utf8Len(Head(s)) + str_len(Tail(s))

\* &s[a..b]: the chars between the byte offsets a and b; the index panics
\* when an offset is past the end or not at a char boundary.
str_slice(s, a, b) ==
    LET at(o) == {k \in 0..Len(s) : str_len(SubSeq(s, 1, k)) = o}
    IN  IF a <= b /\ at(a) # {} /\ at(b) # {}
        THEN [kind |-> "Ok", v |-> SubSeq(s, (CHOOSE k \in at(a) : TRUE) + 1, CHOOSE k \in at(b) : TRUE)]
        ELSE [kind |-> "panic"]

\* Rank::from_str
Rank_from_str(s) ==
    LET ranks == [c \in {"2", "3", "4", "5", "6", "7", "8", "9"} |->
                     CASE c = "2" -> 2 [] c = "3" -> 3 [] c = "4" -> 4 [] c = "5" -> 5
                       [] c = "6" -> 6 [] c = "7" -> 7 [] c = "8" -> 8 [] c = "9" -> 9]
                 @@ ("T" :> 10) @@ ("t" :> 10) @@ ("J" :> 11) @@ ("j" :> 11)
                 @@ ("Q" :> 12) @@ ("q" :> 12) @@ ("K" :> 13) @@ ("k" :> 13)
                 @@ ("A" :> 14) @@ ("a" :> 14)
    IN  IF Len(s) = 1 /\ s[1] \in DOMAIN ranks
        THEN [kind |-> "Ok", v |-> ranks[s[1]]]
        ELSE [kind |-> "Err", err |-> "InvalidCard"]

\* Suit::from_str
Suit_from_str(s) ==
    LET suits == ("h" :> Hearts) @@ ("H" :> Hearts) @@ ("d" :> Diamonds) @@ ("D" :> Diamonds)
                 @@ ("c" :> Clubs) @@ ("C" :> Clubs) @@ ("s" :> Spades) @@ ("S" :> Spades)
    IN  IF Len(s) = 1 /\ s[1] \in DOMAIN suits
        THEN [kind |-> "Ok", v |-> suits[s[1]]]
        ELSE [kind |-> "Err", err |-> "InvalidCard"]

\* Card::from_str past the length check: both slices are taken, then the
\* rank and the suit are parsed, each error returned at once.
ParseCard(rank_str, suit_str) ==
    IF rank_str.kind = "panic" \/ suit_str.kind = "panic" THEN [kind |-> "panic"]
    ELSE IF Rank_from_str(rank_str.v).kind = "Err" THEN Rank_from_str(rank_str.v)
    ELSE IF Suit_from_str(suit_str.v).kind = "Err" THEN Suit_from_str(suit_str.v)
    ELSE [kind |-> "Ok", v |-> Card_new(Rank_from_str(rank_str.v).v, Suit_from_str(suit_str.v).v)]

\* Card::from_str
Card_from_str(s) ==
    IF str_len(s) # 2 THEN [kind |-> "Err", err |-> "InvalidCard"]
    ELSE ParseCard(str_slice(s, 0, 1), str_slice(s, 1, 2))

\* Hand::from_str past the parsing of the cards.
ParsedHand(card1, card2) ==
    IF card2.kind # "Ok" THEN card2
    ELSE IF card1.v = card2.v THEN [kind |-> "Err", err |-> "DuplicateCard"]
    ELSE [kind |-> "Ok", v |-> Hand_new(card1.v, card2.v)]

\* Hand::from_str past the length check: the first card is sliced and
\* parsed, then the second.
ParseHand(s, first_str) ==
    IF first_str.kind = "panic" THEN first_str
    ELSE IF Card_from_str(first_str.v).kind # "Ok" THEN Card_from_str(first_str.v)
    ELSE IF str_slice(s, 2, 4).kind = "panic" THEN str_slice(s, 2, 4)
    ELSE ParsedHand(Card_from_str(first_str.v), Card_from_str(str_slice(s, 2, 4).v))

\* Hand::from_str
Hand_from_str(s) ==
    IF str_len(s) # 4
    THEN [kind |-> "Err", err |-> "InvalidCard"]
    ELSE ParseHand(s, str_slice(s, 0, 2))

----------------------------------------------------------------------------
(* solver/evaluator.rs                                                     *)

\* The bit of a card in the evaluator's mask: rank index + (3 - s) * 16.
get_card_mask(card) ==
    LET r == card[1] - 2
        s == CASE card[2] = Spades -> 0
               [] card[2] = Hearts -> 1
               [] card[2] = Clubs -> 2
               [] card[2] = Diamonds -> 3
    IN  r + (3 - s) * 16

SetMax(S) == CHOOSE x \in S : \A y \in S : y <= x

RECURSIVE TopK(_, _)
TopK(R, k) ==
    IF k = 0 \/ R = {} THEN <<>>
    ELSE <<SetMax(R)>> \o TopK(R \ {SetMax(R)}, k - 1)

RECURSIVE RankBits(_)
RankBits(s) == IF s = <<>> THEN 0 ELSE 2 ^ Head(s) + RankBits(Tail(s))

\* Up to three kickers as a base-13 number, missing ones counting 0.
Kickers(s, n) ==
    LET at(i) == IF i <= Len(s) THEN s[i] ELSE 0
    IN  IF n = 1 THEN at(1)
        ELSE IF n = 2 THEN at(1) * 13 + at(2)
        ELSE at(1) * 169 + at(2) * 13 + at(3)

\* The top card of the best straight among the rank indices R (the ace, 12,
\* also plays low), or -1.
StraightHigh(R) ==
    LET low(h, k) == IF h - k = -1 THEN 12 ELSE h - k
        highs == {h \in 3..12 : \A k \in 0..4 : low(h, k) \in R}
    IN  IF highs = {} THEN -1 ELSE SetMax(highs)

\* The poker strength of the cards a mask holds (bits decoded as rank index
\* = bit % 16, suit group = bit \div 16): category first, then the ranks
\* that break ties within it; larger is stronger.  0 .. 49702.
Strength(mask) ==
    LET cards == {<<b % 16, b \div 16>> : b \in mask}
        ranks == {c[1] : c \in cards}
        cnt(r) == Cardinality({c \in cards : c[1] = r})
        quads == {r \in ranks : cnt(r) = 4}
        trips == {r \in ranks : cnt(r) = 3}
        pairs == {r \in ranks : cnt(r) = 2}
        suited(s) == {c[1] : c \in {x \in cards : x[2] = s}}
        flushSuits == {s \in 0..3 : Cardinality(suited(s)) >= 5}
        flushRanks == IF flushSuits = {} THEN {}
                      ELSE suited(CHOOSE s \in flushSuits : TRUE)
        sf == StraightHigh(flushRanks)
        st == StraightHigh(ranks)
    IN  IF sf # -1 THEN 49690 + sf
        ELSE IF quads # {} THEN
            LET q == SetMax(quads)
            IN  49521 + q * 13 + Kickers(TopK(ranks \ {q}, 1), 1)
        ELSE IF trips # {} /\ (Cardinality(trips) >= 2 \/ pairs # {}) THEN
            LET t == SetMax(trips)
            IN  49352 + t * 13 + SetMax((trips \ {t}) \cup pairs)
        ELSE IF flushRanks # {} THEN 41160 + RankBits(TopK(flushRanks, 5))
        ELSE IF st # -1 THEN 41147 + st
        ELSE IF trips # {} THEN
            LET t == SetMax(trips)
            IN  38950 + t * 169 + Kickers(TopK(ranks \ {t}, 2), 2)
        ELSE IF Cardinality(pairs) >= 2 THEN
            LET p == TopK(pairs, 2)
            IN  36753 + p[1] * 169 + p[2] * 13
                + Kickers(TopK(ranks \ {p[1], p[2]}, 1), 1)
        ELSE IF pairs # {} THEN
            LET p == SetMax(pairs)
            IN  8192 + p * 2197 + Kickers(TopK(ranks \ {p}, 3), 3)
        ELSE RankBits(TopK(ranks, 5))

\* pokers::Hand::from_bit_mask(mask).evaluate(): a u16 score, lower is
\* better (the evaluator's comments: a pair scores below high card).
PHand_evaluate(mask) == 49703 - Strength(mask)

\* evaluate_hand: the score inverted, so that higher is better.
evaluate_hand(hand, board) ==
    65535 - PHand_evaluate({get_card_mask(hand[1]), get_card_mask(hand[2])}
                           \cup {get_card_mask(board[k]) : k \in 1..Len(board)})

----------------------------------------------------------------------------
(* models/action.rs                                                        *)

PotFraction(f) == [kind |-> "PotFraction", v |-> f]
Amount(a) == [kind |-> "Amount", v |-> a]
NoSize == [kind |-> "None", v |-> Zero]

Fold == [tag |-> "Fold", size |-> NoSize]
Check == [tag |-> "Check", size |-> NoSize]
Call == [tag |-> "Call", size |-> NoSize]
Bet(size) == [tag |-> "Bet", size |-> size]
Raise(size) == [tag |-> "Raise", size |-> size]
AllIn == [tag |-> "AllIn", size |-> NoSize]

\* Action::amount with the pot-fraction raise not capped by the stack.
Action_amount_uncapped_raise(action, pot, stack, to_call) ==
    CASE action.tag \in {"Fold", "Check"} -> Zero
      [] action.tag = "Call" -> to_call
      [] action.tag = "Bet" ->
            IF action.size.kind = "PotFraction"
            THEN QMin(QMul(pot, action.size.v), stack)
            ELSE QMin(action.size.v, stack)
      [] action.tag = "Raise" ->
            IF action.size.kind = "PotFraction"
            THEN QAdd(to_call, QMul(pot, action.size.v))
            ELSE QMin(action.size.v, stack)
      [] action.tag = "AllIn" -> stack

\* Action::amount
Action_amount(action, pot, stack, to_call) ==
    CASE action.tag \in {"Fold", "Check"} -> Zero
      [] action.tag = "Call" -> to_call
      [] action.tag = "Bet" ->
            IF action.size.kind = "PotFraction"
            THEN QMin(QMul(pot, action.size.v), stack)
            ELSE QMin(action.size.v, stack)
      [] action.tag = "Raise" ->
            IF action.size.kind = "PotFraction"
            THEN QMin(QAdd(to_call, QMul(pot, action.size.v)), stack)
            ELSE QMin(action.size.v, stack)
      [] action.tag = "AllIn" -> stack

----------------------------------------------------------------------------
(* models/range.rs: a Range is its map from hand to weight (hands) and the *)
(* order in which this HashMap instance happens to be iterated (order), a  *)
(* permutation of its keys that std's randomly keyed hasher decides.       *)

\* The permutations of a finite set, as sequences.
Perms(S) ==
    {f \in [1..Cardinality(S) -> S] : \A a, b \in 1..Cardinality(S) : f[a] = f[b] => a = b}

Range_new == [hands |-> <<>>, order |-> <<>>]

\* Every Range value whose map is hands.
RangesOf(hands) == {[hands |-> hands, order |-> o] : o \in Perms(DOMAIN hands)}

num_combos(range) == Cardinality(DOMAIN range.hands)

\* remove_blockers looking up only the first card of each hand.
remove_blockers_first_card(range, cards) ==
    LET keep(hand) == hand[1] \notin cards
        kept == {h \in DOMAIN range.hands : keep(h)}
    IN  [hands |-> [h \in kept |-> range.hands[h]],
         order |-> SelectSeq(range.order, keep)]

\* Range::remove_blockers: retain the hands with neither card in cards.
remove_blockers(range, cards) ==
    LET keep(hand) == hand[1] \notin cards /\ hand[2] \notin cards
        kept == {h \in DOMAIN range.hands : keep(h)}
    IN  [hands |-> [h \in kept |-> range.hands[h]],
         order |-> SelectSeq(range.order, keep)]

\* u8_to_card: the card of a pokers card index.
u8_to_card(val) ==
    Card_new(IF val \div 4 <= 12 THEN val \div 4 + 2 ELSE 14,
             CASE val % 4 = 0 -> Hearts
               [] val % 4 = 1 -> Spades
               [] val % 4 = 2 -> Clubs
               [] val % 4 = 3 -> Diamonds)

\* canonical_hand with the two cards of a pair left as given.
canonical_hand_pair_as_given(c1, c2) ==
    IF c1[1] > c2[1] THEN Hand_new(c1, c2)
    ELSE IF c1[1] < c2[1] THEN Hand_new(c2, c1)
    ELSE Hand_new(c1, c2)

\* canonical_hand: the higher rank first; at equal ranks the lower suit.
canonical_hand(c1, c2) ==
    IF c1[1] > c2[1] THEN Hand_new(c1, c2)
    ELSE IF c1[1] < c2[1] THEN Hand_new(c2, c1)
    ELSE IF c1[2] > c2[2] THEN Hand_new(c2, c1)
    ELSE Hand_new(c1, c2)

RECURSIVE InsertCombos(_, _)
\* The loop of from_notation over the combos (card, card, weight) that
\* pokers::HandRange::from_string returned: each is inserted under its
\* canonical hand, a later one replacing an earlier one of the same key.
InsertCombos(hands, combos) ==
    IF combos = <<>> THEN hands
    ELSE InsertCombos((canonical_hand(u8_to_card(Head(combos)[1]), u8_to_card(Head(combos)[2]))
                          :> Q(Head(combos)[3], 100)) @@ hands,
                      Tail(combos))

\* Range::from_notation, blank telling whether the notation trims to the
\* empty string and combos being what pokers parsed from it: the map of the
\* range, or an error.
Range_from_notation(blank, combos) ==
    IF blank THEN [ok |-> FALSE, err |-> "InvalidRange"]
    ELSE [ok |-> TRUE, hands |-> InsertCombos(<<>>, combos)]

\* Range::contains
Range_contains(range, hand) == canonical_hand(hand[1], hand[2]) \in DOMAIN range.hands

----------------------------------------------------------------------------
(* models/game_state.rs                                                    *)

\* Street::from_board_size
Street_from_board_size(size) ==
    CASE size = 0 -> [ok |-> TRUE, street |-> "Preflop"]
      [] size = 3 -> [ok |-> TRUE, street |-> "Flop"]
      [] size = 4 -> [ok |-> TRUE, street |-> "Turn"]
      [] size = 5 -> [ok |-> TRUE, street |-> "River"]
      [] OTHER -> [ok |-> FALSE, street |-> "Unknown"]

\* GameState::new accepting a pot of 0.
GameState_new_zero_pot(hero_hand, board, pot_size, effective_stack, to_call, position, villain_range) ==
    LET st == Street_from_board_size(Len(board))
        all_cards == <<hero_hand[1], hero_hand[2]>> \o board
        dup == \E a, b \in 1..Len(all_cards) : a < b /\ all_cards[a] = all_cards[b]
    IN  IF QLt(pot_size, Zero) \/ QLe(effective_stack, Zero) \/ QLt(to_call, Zero)
           \/ QLt(effective_stack, to_call) \/ ~st.ok \/ dup
        THEN [ok |-> FALSE, err |-> "InvalidGameState"]
        ELSE [ok |-> TRUE,
              state |-> [hero_hand |-> hero_hand,
                         board |-> board,
                         pot_size |-> pot_size,
                         effective_stack |-> effective_stack,
                         to_call |-> to_call,
                         position |-> position,
                         villain_range |-> villain_range,
                         street |-> st.street,
                         available_actions |-> <<>>]]

\* GameState::new: the validated constructor.
GameState_new(hero_hand, board, pot_size, effective_stack, to_call, position, villain_range) ==
    LET st == Street_from_board_size(Len(board))
        all_cards == <<hero_hand[1], hero_hand[2]>> \o board
        dup == \E a, b \in 1..Len(all_cards) : a < b /\ all_cards[a] = all_cards[b]
    IN  IF QLe(pot_size, Zero) THEN [ok |-> FALSE, err |-> "InvalidGameState"]
        ELSE IF QLe(effective_stack, Zero) THEN [ok |-> FALSE, err |-> "InvalidGameState"]
        ELSE IF QLt(to_call, Zero) \/ QLt(effective_stack, to_call)
             THEN [ok |-> FALSE, err |-> "InvalidGameState"]
        ELSE IF ~st.ok THEN [ok |-> FALSE, err |-> "InvalidBoard"]
        ELSE IF dup THEN [ok |-> FALSE, err |-> "DuplicateCard"]
        ELSE [ok |-> TRUE,
              state |-> [hero_hand |-> hero_hand,
                         board |-> board,
                         pot_size |-> pot_size,
                         effective_stack |-> effective_stack,
                         to_call |-> to_call,
                         position |-> position,
                         villain_range |-> villain_range,
                         street |-> st.street,
                         available_actions |-> <<>>]]

----------------------------------------------------------------------------
(* solver/info_set.rs                                                      *)

\* SprBucket::from_spr
SprBucket_from_spr(spr) ==
    IF QLt(spr, <<2, 1>>) THEN "Short"
    ELSE IF QLt(spr, <<5, 1>>) THEN "Medium"
    ELSE IF QLt(spr, <<10, 1>>) THEN "Deep"
    ELSE "VeryDeep"

\* InfoSetKey::from_game_state
InfoSetKey_from_game_state(state) ==
    LET spr == IF QLt(Zero, state.pot_size)
               THEN QDiv(state.effective_stack, state.pot_size)
               ELSE Zero
    IN  [hero_hand |-> state.hero_hand,
         spr_bucket |-> SprBucket_from_spr(spr),
         position |-> state.position]

----------------------------------------------------------------------------
(* solver/regret.rs                                                        *)

None == [some |-> FALSE, v |-> <<>>]
Some(x) == [some |-> TRUE, v |-> x]

\* The branch of regret_to_strategy on the sum of the positive regrets.
MatchRegrets(positive_regrets, sum_positive_regret) ==
    IF QLt(Zero, sum_positive_regret)
    THEN [k \in 1..Len(positive_regrets) |->
              QDiv(positive_regrets[k], sum_positive_regret)]
    ELSE IF Len(positive_regrets) = 0 THEN <<>>
    ELSE Repeat(Q(1, Len(positive_regrets)), Len(positive_regrets))

\* r.max(0.0), component-wise.
PositivePart(regrets) == [k \in 1..Len(regrets) |-> QMax(regrets[k], Zero)]

\* The positive regrets with their sum.
MatchPositive(positive_regrets) == MatchRegrets(positive_regrets, QSum(positive_regrets))

\* A variant of regret_to_strategy that forgets r.max(0.0).
regret_to_strategy_unclipped(regrets) == MatchPositive(regrets)

\* regret_to_strategy: regret matching.
regret_to_strategy(regrets) == MatchPositive(PositivePart(regrets))

\* RegretTable::new
RegretTable_new == [regrets |-> <<>>, strategy_sum |-> <<>>]

\* map.entry(key).or_insert_with(|| value): the map afterwards.
OrInsert(map, key, value) == IF key \in DOMAIN map THEN map ELSE (key :> value) @@ map

\* The regret-matched strategy of the entry of key, with the table.
StrategyOf(table, key) ==
    [table |-> table, strategy |-> regret_to_strategy(table.regrets[key])]

\* RegretTable::get_strategy: creates a zero entry for a new key; the
\* strategy has the length of the STORED regret vector.
get_strategy(table, key, n_actions) ==
    StrategyOf([table EXCEPT !.regrets = OrInsert(@, key, Repeat(Zero, n_actions))], key)

\* A panic of the thread (an index out of range).
PanickedUpdate == [ok |-> FALSE, table |-> RegretTable_new]

\* The strategy-sum half of update_regrets, given the current strategy.
AddStrategy(table, key, current_strategy, reach_prob) ==
    IF Len(table.strategy_sum[key]) < Len(current_strategy)
    THEN PanickedUpdate
    ELSE [ok |-> TRUE,
          table |-> [table EXCEPT !.strategy_sum[key] =
                        [k \in 1..Len(@) |->
                            IF k <= Len(current_strategy)
                            THEN QAdd(@[k], QMul(current_strategy[k], reach_prob))
                            ELSE @[k]]]]

\* The strategy-sum half of update_regrets: the current strategy is
\* recomputed from the regrets just updated.
SumStrategy(table, key, reach_prob) ==
    AddStrategy(table, key, regret_to_strategy(table.regrets[key]), reach_prob)

\* The regret half with the strategy taken from the regrets as they were
\* before the addition.
AddRegrets_stale_strategy(table, key, new_regrets, reach_prob) ==
    IF Len(table.regrets[key]) < Len(new_regrets)
    THEN PanickedUpdate
    ELSE AddStrategy([table EXCEPT !.regrets[key] =
                        [k \in 1..Len(@) |->
                            IF k <= Len(new_regrets) THEN QAdd(@[k], new_regrets[k])
                            ELSE @[k]]],
                     key, regret_to_strategy(table.regrets[key]), reach_prob)

\* The regret half of update_regrets, on a table that holds both entries.
AddRegrets(table, key, new_regrets, reach_prob) ==
    IF Len(table.regrets[key]) < Len(new_regrets)
    THEN PanickedUpdate
    ELSE SumStrategy([table EXCEPT !.regrets[key] =
                        [k \in 1..Len(@) |->
                            IF k <= Len(new_regrets) THEN QAdd(@[k], new_regrets[k])
                            ELSE @[k]]],
                     key, reach_prob)

\* RegretTable::update_regrets.  ok is FALSE when an index is out of range
\* (regrets[i] with a stored vector shorter than new_regrets, strategy_sum[i]
\* with a stored sum shorter than the current strategy): the thread panics.
update_regrets(table, key, new_regrets, reach_prob) ==
    AddRegrets([regrets |-> OrInsert(table.regrets, key, Repeat(Zero, Len(new_regrets))),
                strategy_sum |-> OrInsert(table.strategy_sum, key,
                                          Repeat(Zero, Len(new_regrets)))],
               key, new_regrets, reach_prob)

\* A variant of the normalisation that forgets to divide by the total.
AverageOf_unnormalised(sum, total) == sum

\* The normalisation of get_average_strategy.
AverageOf(sum, total) ==
    IF QLt(Zero, total) THEN [k \in 1..Len(sum) |-> QDiv(sum[k], total)]
    ELSE IF Len(sum) = 0 THEN <<>>
    ELSE Repeat(Q(1, Len(sum)), Len(sum))

\* RegretTable::get_average_strategy
get_average_strategy(table, key) ==
    IF key \in DOMAIN table.strategy_sum
    THEN Some(AverageOf(table.strategy_sum[key], QSum(table.strategy_sum[key])))
    ELSE None

\* RegretTable::keys: the keys of strategy_sum.
RegretTable_keys(table) == DOMAIN table.strategy_sum

----------------------------------------------------------------------------
(* solver/mccfr.rs                                                         *)

IP == "IP"
OOP == "OOP"

\* f64::MAX, the tracker's initial max_change: larger than every quantity
\* the model computes.
F64_MAX == <<1000000, 1>>

\* MccfrConfig::default (the seed is None).
DefaultSamples == 100
DefaultIterations == 10000
DefaultThreshold == <<1, 1000>>

\* ConvergenceTracker::new
ConvergenceTracker_new ==
    [prev_strategies |-> <<>>, max_change |-> F64_MAX, iterations_since_check |-> 0]

\* The largest of a non-empty finite set of rationals.
QSetMax(S) == CHOOSE d \in S : \A e \in S : QLe(e, d)

\* The running max_diff after the zipped (truncated) pair of strategies.
ZipMaxDiff(current, prev, start) ==
    QSetMax({QAbs(QSub(current[k], prev[k])) :
                 k \in 1..(IF Len(current) < Len(prev) THEN Len(current) ELSE Len(prev))}
            \cup {start})

RECURSIVE CheckKeys(_, _, _, _)

\* One key of the loop with a key met for the first time compared with the
\* zero vector.
CheckKey_new_key_counts(keys, key, current_strategy, regret_table, prev_strategies, max_diff) ==
    IF key \in DOMAIN prev_strategies
    THEN CheckKeys(keys \ {key}, regret_table,
                   [prev_strategies EXCEPT ![key] = current_strategy],
                   ZipMaxDiff(current_strategy, prev_strategies[key], max_diff))
    ELSE CheckKeys(keys \ {key}, regret_table,
                   (key :> current_strategy) @@ prev_strategies,
                   ZipMaxDiff(current_strategy, [k \in 1..Len(current_strategy) |-> Zero], max_diff))

\* One key of the loop of check_convergence, given its average strategy.
CheckKey(keys, key, current_strategy, regret_table, prev_strategies, max_diff) ==
    IF key \in DOMAIN prev_strategies
    THEN CheckKeys(keys \ {key}, regret_table,
                   [prev_strategies EXCEPT ![key] = current_strategy],
                   ZipMaxDiff(current_strategy, prev_strategies[key], max_diff))
    ELSE CheckKeys(keys \ {key}, regret_table,
                   (key :> current_strategy) @@ prev_strategies, max_diff)

\* The key the loop visits next.
NextKey(keys, regret_table, prev_strategies, max_diff, key) ==
    CheckKey(keys, key, get_average_strategy(regret_table, key).v, regret_table,
             prev_strategies, max_diff)

\* The loop of check_convergence over the keys still to visit: the running
\* max_diff and the updated prev_strategies.
CheckKeys(keys, regret_table, prev_strategies, max_diff) ==
    IF keys = {} THEN [prev_strategies |-> prev_strategies, max_diff |-> max_diff]
    ELSE NextKey(keys, regret_table, prev_strategies, max_diff, CHOOSE k \in keys : TRUE)

\* The tracker that check_convergence leaves, from the outcome of its loop.
Checked(r) ==
    [prev_strategies |-> r.prev_strategies, max_change |-> r.max_diff,
     iterations_since_check |-> 0]

\* ConvergenceTracker::check_convergence: the tracker afterwards (the value
\* returned is its max_change).
check_convergence(tracker, regret_table) ==
    Checked(CheckKeys(RegretTable_keys(regret_table), regret_table,
                      tracker.prev_strategies, Zero))

\* ConvergenceTracker::is_converged
is_converged(tracker, threshold) == QLt(tracker.max_change, threshold)

\* The values rng.gen::<f64>() yields in the model, all in [0, 1).
RandVals == <<<<1, 4>>, <<3, 4>>>>

\* The stream of a seed repeats after StreamLen draws.
StreamLen == 3

\* The seeds of the model.
Seeds == 0..MaxSeed

\* McSampler::new with Some(seed): Xoshiro256PlusPlus::seed_from_u64, a
\* deterministic stream of draws fixed by the seed.
McSampler_new(seed) == [seed |-> seed, pos |-> 0]

\* rng.gen::<f64>(): the draw and the sampler afterwards.
Gen(sampler) ==
    [value |-> RandVals[((sampler.seed \div (Len(RandVals) ^ sampler.pos)) % Len(RandVals)) + 1],
     sampler |-> [sampler EXCEPT !.pos = (@ + 1) % StreamLen]]

RECURSIVE WalkWeights(_, _, _, _)

\* One step of the loop of sample_hand: r already reduced by weight k.
WalkStep(range, r, k, n) ==
    IF QLe(r, Zero) THEN k ELSE WalkWeights(range, r, k + 1, n)

\* The loop of sample_hand from position k of the iteration order: the
\* first hand at which r, reduced by the weights so far, is <= 0; 0 if none.
WalkWeights(range, r, k, n) ==
    IF k > n THEN 0
    ELSE WalkStep(range, QSub(r, range.hands[range.order[k]]), k, n)

\* The hand at position k of the iteration order; the first one when the
\* loop found none (the fallback).
HandAt(range, k) == IF k = 0 THEN range.order[1] ELSE range.order[k]

\* sample_hand on a non-empty range, given the draw.
SampleWith(range, g) ==
    [some |-> TRUE,
     hand |-> HandAt(range,
                     WalkWeights(range,
                                 QMul(g.value,
                                      QSum([k \in 1..Len(range.order) |->
                                                range.hands[range.order[k]]])),
                                 1, Len(range.order))),
     sampler |-> g.sampler]

\* McSampler::sample_hand
sample_hand(sampler, range) ==
    IF DOMAIN range.hands = {}
    THEN [some |-> FALSE, hand |-> <<>>, sampler |-> sampler]
    ELSE SampleWith(range, Gen(sampler))

\* The default list with a check offered to a player facing a bet.
DefaultActions_check_facing_bet(to_call) ==
    IF QLt(Zero, to_call) THEN <<Fold, Call, Check>>
    ELSE <<Check, Bet(PotFraction(<<1, 2>>))>>

\* The default action list of a state with none.
DefaultActions(to_call) ==
    IF QLt(Zero, to_call) THEN <<Fold, Call>>
    ELSE <<Check, Bet(PotFraction(<<1, 2>>))>>

\* The action list of a node: the state's own, or the defaults.
ActionsOf(state) ==
    IF state.available_actions = <<>> THEN DefaultActions(state.to_call)
    ELSE state.available_actions

Toggle(position) == IF position = IP THEN OOP ELSE IP

\* The Bet / Raise / AllIn arm with the position left as it was.
Wager_untoggled(state, amount) ==
    [next |-> Some([state EXCEPT !.available_actions = <<>>,
                                 !.pot_size = QAdd(@, amount),
                                 !.effective_stack = QSub(@, amount),
                                 !.to_call = amount]),
     is_terminal |-> FALSE, payoff |-> Zero]

\* The Bet / Raise / AllIn arm with the action list carried over.
Wager_keeps_actions(state, amount) ==
    [next |-> Some([state EXCEPT !.pot_size = QAdd(@, amount),
                                 !.effective_stack = QSub(@, amount),
                                 !.to_call = amount,
                                 !.position = Toggle(state.position)]),
     is_terminal |-> FALSE, payoff |-> Zero]

\* The Bet / Raise / AllIn arm of apply_action, given the amount.
Wager(state, amount) ==
    [next |-> Some([state EXCEPT !.available_actions = <<>>,
                                 !.pot_size = QAdd(@, amount),
                                 !.effective_stack = QSub(@, amount),
                                 !.to_call = amount,
                                 !.position = Toggle(state.position)]),
     is_terminal |-> FALSE, payoff |-> Zero]

\* apply_action: (next state or none, is_terminal, payoff).
apply_action(state, action) ==
    CASE action.tag = "Fold" ->
            [next |-> None, is_terminal |-> TRUE, payoff |-> Zero]
      [] action.tag = "Check" ->
            IF state.position = OOP
            THEN [next |-> Some([state EXCEPT !.available_actions = <<>>,
                                              !.position = IP]),
                  is_terminal |-> FALSE, payoff |-> Zero]
            ELSE [next |-> None, is_terminal |-> TRUE, payoff |-> Zero]
      [] action.tag = "Call" ->
            [next |-> None, is_terminal |-> TRUE, payoff |-> Zero]
      [] action.tag \in {"Bet", "Raise", "AllIn"} ->
            Wager(state, Action_amount(action, state.pot_size,
                                       state.effective_stack, state.to_call))

\* The payoff of evaluate_showdown, given the two scores.
ShowdownPayoff(state, traverser, t_score, o_score) ==
    LET hero_is_traverser == IF state.position = IP THEN traverser = IP
                             ELSE traverser = OOP
    IN  IF t_score > o_score
        THEN (IF hero_is_traverser THEN state.pot_size ELSE Zero)
        ELSE IF t_score < o_score
        THEN (IF hero_is_traverser THEN Zero ELSE state.pot_size)
        ELSE QDiv(state.pot_size, <<2, 1>>)

\* evaluate_showdown
evaluate_showdown(state, hero_hand, villain_hand, traverser) ==
    ShowdownPayoff(state, traverser,
                   evaluate_hand(hero_hand, state.board),
                   evaluate_hand(villain_hand, state.board))

RECURSIVE PickIdx(_, _, _)

\* One step of the opponent's sampling loop: r already reduced by prob k.
PickStep(strategy, r, k) ==
    IF QLe(r, Zero) THEN k - 1 ELSE PickIdx(strategy, r, k + 1)

\* The opponent's sampling loop: the first index (from 0) at which r, reduced
\* by the probabilities so far, is <= 0; chosen_idx stays 0 if there is none.
PickIdx(strategy, r, k) ==
    IF k > Len(strategy) THEN 0
    ELSE PickStep(strategy, QSub(r, strategy[k]), k)

\* chosen_idx, clamped to the action list.
Clamp(picked, n) == IF picked >= n THEN n - 1 ELSE picked

\* A call that panicked (an index out of range): nothing is returned.
Panicked ==
    [ok |-> FALSE, util |-> Zero, table |-> RegretTable_new, sampler |-> McSampler_new(0)]

\* A call that returned util.
Returned(util, regret_table, sampler) ==
    [ok |-> TRUE, util |-> util, table |-> regret_table, sampler |-> sampler]

RECURSIVE traverse(_, _, _, _, _, _)
RECURSIVE TraverserLoop(_, _, _, _, _, _, _, _, _, _)

\* The utility of one action of the traverser, given what apply_action
\* returned for it.
TraverserChild(state, traverser, hero_hand, villain_hand, regret_table, sampler, ap) ==
    IF ap.is_terminal
    THEN Returned(IF ap.payoff # Zero THEN ap.payoff
                  ELSE evaluate_showdown(state, hero_hand, villain_hand, traverser),
                  regret_table, sampler)
    ELSE IF ap.next.some
    THEN traverse(ap.next.v, traverser, hero_hand, villain_hand, regret_table, sampler)
    ELSE Returned(Zero, regret_table, sampler)

\* The rest of the traverser's loop after action k, whose outcome is sub:
\* action_utils[k] is stored and strategy[k] is read.
LoopAfter(state, traverser, hero_hand, villain_hand, actions, strategy, k, action_utils, sub) ==
    IF ~sub.ok \/ k > Len(strategy)
    THEN [ok |-> FALSE, action_utils |-> action_utils,
          table |-> sub.table, sampler |-> sub.sampler]
    ELSE TraverserLoop(state, traverser, hero_hand, villain_hand, sub.table,
                       sub.sampler, actions, strategy, k + 1,
                       Append(action_utils, sub.util))

\* The traverser's loop over all actions of a node, from action k on: the
\* utilities (action_utils), the table and the sampler as the recursive
\* calls leave them.  ok is FALSE when strategy[k] is out of range or a
\* recursive call panicked.
TraverserLoop(state, traverser, hero_hand, villain_hand, regret_table, sampler, actions, strategy, k, action_utils) ==
    IF k > Len(actions)
    THEN [ok |-> TRUE, action_utils |-> action_utils,
          table |-> regret_table, sampler |-> sampler]
    ELSE LoopAfter(state, traverser, hero_hand, villain_hand, actions, strategy, k,
                   action_utils,
                   TraverserChild(state, traverser, hero_hand, villain_hand,
                                  regret_table, sampler,
                                  apply_action(state, actions[k])))

\* The return of the traverser's branch, after update_regrets.
AfterUpdate(node_util, sampler, up) ==
    IF up.ok THEN Returned(node_util, up.table, sampler) ELSE Panicked

\* "Update Regrets": the regrets are action_utils - node_util, reach 1.0.
UpdateNode(key, lp, node_util) ==
    AfterUpdate(node_util, lp.sampler,
                update_regrets(lp.table, key,
                               [k \in 1..Len(lp.action_utils) |->
                                    QSub(lp.action_utils[k], node_util)],
                               One))

\* The traverser's branch of traverse, after its loop (lp).
TraverserNode(key, strategy, lp) ==
    IF ~lp.ok THEN Panicked
    ELSE UpdateNode(key, lp,
                    QSum([k \in 1..Len(lp.action_utils) |->
                              QMul(strategy[k], lp.action_utils[k])]))

\* The opponent's branch after apply_action on the sampled action.
OpponentChild(state, traverser, hero_hand, villain_hand, regret_table, sampler, action, ap) ==
    IF ap.is_terminal
    THEN Returned(IF ap.payoff # Zero /\ action.tag = "Fold" THEN state.pot_size
                  ELSE evaluate_showdown(state, hero_hand, villain_hand, traverser),
                  regret_table, sampler)
    ELSE IF ap.next.some
    THEN traverse(ap.next.v, traverser, hero_hand, villain_hand, regret_table, sampler)
    ELSE Returned(Zero, regret_table, sampler)

\* The opponent's branch, the action being sampled.
OpponentAct(state, traverser, hero_hand, villain_hand, regret_table, sampler, action) ==
    OpponentChild(state, traverser, hero_hand, villain_hand, regret_table, sampler,
                  action, apply_action(state, action))

\* The opponent's branch of traverse: one action sampled from the strategy
\* with the draw g.
OpponentNode(state, traverser, hero_hand, villain_hand, actions, gs, g) ==
    OpponentAct(state, traverser, hero_hand, villain_hand, gs.table, g.sampler,
                actions[Clamp(PickIdx(gs.strategy, g.value, 1), Len(actions)) + 1])

\* traverse from "Get Strategy" on, gs being what get_strategy returned.
WithStrategy(state, traverser, hero_hand, villain_hand, sampler, actions, key, gs) ==
    IF state.position = traverser
    THEN TraverserNode(key, gs.strategy,
                       TraverserLoop(state, traverser, hero_hand, villain_hand,
                                     gs.table, sampler, actions, gs.strategy, 1, <<>>))
    ELSE OpponentNode(state, traverser, hero_hand, villain_hand, actions, gs,
                      Gen(sampler))

\* traverse at a node with its action list and information-set key.
AtNode(state, traverser, hero_hand, villain_hand, regret_table, sampler, actions, key) ==
    WithStrategy(state, traverser, hero_hand, villain_hand, sampler, actions, key,
                 get_strategy(regret_table, key, Len(actions)))

\* traverse: the traverser's utility (util), the table and the sampler
\* afterwards; ok is FALSE when the call panicked.  The key is built from
\* the actor's hand: hero_hand when the actor is the traverser, villain_hand
\* otherwise.
traverse(state, traverser, hero_hand, villain_hand, regret_table, sampler) ==
    AtNode(state, traverser, hero_hand, villain_hand, regret_table, sampler,
           ActionsOf(state),
           InfoSetKey_from_game_state(
               [state EXCEPT !.hero_hand = IF state.position = traverser
                                           THEN hero_hand ELSE villain_hand]))

\* The check interval of solve_with_config.
CheckInterval(iterations) ==
    LET Max2(a, b) == IF a >= b THEN a ELSE b
    IN  IF iterations <= 100 THEN Max2(iterations \div 2, 1)
        ELSE Max2(iterations \div 10, 100)

\* The traverser never swapped: hero's seat in every iteration.
TraverserOf_never_swapped(state, i) == state.position

\* The traverser of iteration i: hero's seat on even i, the other on odd i.
TraverserOf(state, i) == IF i % 2 = 0 THEN state.position ELSE Toggle(state.position)

\* The root of solve_with_config: the state with its action list defaulted.
RootOf(state) == [state EXCEPT !.available_actions = ActionsOf(state)]

\* A variant of the checkpoint that breaks out of the loop once converged.
EarlyStop_when_converged(tracker, threshold) == is_converged(tracker, threshold)

\* The body of the "if is_converged" at a checkpoint is empty: the loop is
\* never left early.
EarlyStop(tracker, threshold) == FALSE

Strategy_new(actions, iterations, convergence) ==
    [actions |-> actions, iterations |-> iterations, convergence |-> convergence]

\* The frequencies of a Strategy, in the order of its actions.
Frequencies(strategy) ==
    [k \in 1..Len(strategy.actions) |-> strategy.actions[k].frequency]

\* Strategy::is_valid: the frequencies sum to 1.0 within 0.001.
Strategy_is_valid(strategy) ==
    QLt(QAbs(QSub(QSum(Frequencies(strategy)), One)), <<1, 1000>>)

\* unwrap_or_else of extract_strategy: the uniform fallback.
OrUniform(avg, n) == IF avg.some THEN avg.v ELSE Repeat(Q(1, n), n)

\* A variant of ExtractFrequencies that reads the regret-matched current
\* strategy of the root key instead of the average one.
ExtractFrequencies_current(state, regret_table) ==
    OrUniform(IF InfoSetKey_from_game_state(state) \in DOMAIN regret_table.regrets
              THEN Some(regret_to_strategy(
                            regret_table.regrets[InfoSetKey_from_game_state(state)]))
              ELSE None,
              IF state.available_actions = <<>> THEN 2
              ELSE Len(state.available_actions))

\* The average strategy extract_strategy reads for the root key.
ExtractFrequencies(state, regret_table) ==
    OrUniform(get_average_strategy(regret_table, InfoSetKey_from_game_state(state)),
              IF state.available_actions = <<>> THEN 2
              ELSE Len(state.available_actions))

\* actions.iter().zip(avg_strategy.iter()): the shorter of the two decides.
ZipStrategies(actions, avg_strategy) ==
    [k \in 1..(IF Len(actions) < Len(avg_strategy) THEN Len(actions)
               ELSE Len(avg_strategy)) |->
        [action |-> actions[k], frequency |-> avg_strategy[k], ev |-> Zero]]

\* extract_strategy
extract_strategy(state, regret_table, iterations, convergence) ==
    Strategy_new(ZipStrategies(ActionsOf(state), ExtractFrequencies(state, regret_table)),
                 iterations, convergence)

----------------------------------------------------------------------------
(* solver/cfr.rs: the exported solver::solve.                              *)

\* determine_available_actions
determine_available_actions(state) ==
    IF QLt(Zero, state.to_call)
    THEN <<Fold, Call>> \o
         (IF QLt(state.to_call, state.effective_stack)
          THEN <<Raise(PotFraction(One)), AllIn>> ELSE <<>>)
    ELSE <<Check>> \o
         (IF QLt(Zero, state.effective_stack)
          THEN <<Bet(PotFraction(<<1, 2>>)), Bet(PotFraction(One)), AllIn>>
          ELSE <<>>)

\* The uniform strategy over the actions.
UniformOver(actions, iterations) ==
    Strategy_new([k \in 1..Len(actions) |->
                     [action |-> actions[k],
                      frequency |-> IF Len(actions) > 0 THEN Q(1, Len(actions)) ELSE Zero,
                      ev |-> Zero]],
                 iterations, Zero)

\* Solver::solve: every action at the uniform frequency.
Solver_solve(game_state, iterations) ==
    [kind |-> "Ok",
     strategy |-> UniformOver(IF game_state.available_actions = <<>>
                              THEN determine_available_actions(game_state)
                              ELSE game_state.available_actions,
                              iterations)]

\* cfr::solve, re-exported as solver::solve.
solve(game_state, iterations) == Solver_solve(game_state, iterations)

----------------------------------------------------------------------------
(* The inputs of the model.                                                *)

Board ==
    <<Card_new(12, Hearts), Card_new(11, Hearts), Card_new(10, Hearts),
      Card_new(2, Spades), Card_new(3, Diamonds)>>

\* Hero holds a pair of fours: ahead of 7c2c, behind KdQd on this board.
HeroHands == {Hand_new(Card_new(4, Clubs), Card_new(4, Diamonds))}

Air == Hand_new(Card_new(7, Clubs), Card_new(2, Clubs))
TwoPair == Hand_new(Card_new(13, Diamonds), Card_new(12, Diamonds))
Blocked == Hand_new(Card_new(2, Clubs), Card_new(2, Spades))

\* The villain ranges as parsed, before blocker removal.
ParsedHands == {Air :> One, (Air :> One) @@ (TwoPair :> One), Blocked :> One}

Pots == {<<10, 1>>}
Stacks == {<<100, 1>>, <<200, 1>>}
ToCalls == {Zero, <<5, 1>>}

\* The action lists a caller supplies (empty: the solver's defaults).
ActionLists(to_call) ==
    IF to_call = Zero
    THEN {<<>>, <<Check>>, <<Check, Bet(PotFraction(<<1, 2>>)), AllIn>>}
    ELSE {<<>>, <<Call>>, <<Fold, Call, AllIn>>}

\* The cards of hero's hand and of the board.
DeadCards(hand) == {hand[1], hand[2]} \cup {Board[k] : k \in 1..Len(Board)}

\* What GameState::new returns on the inputs of the model, as main calls
\* it: the range with hero's and the board's cards removed.
Built ==
    {GameState_new(h, Board, p, s, c, pos, remove_blockers(r, DeadCards(h))) :
         h \in HeroHands, p \in Pots, s \in Stacks, c \in ToCalls,
         pos \in {IP, OOP}, r \in UNION {RangesOf(m) : m \in ParsedHands}}

\* The states a caller may pass on with available_actions set.
WithActions(st) == {[st EXCEPT !.available_actions = a] : a \in ActionLists(st.to_call)}

\* The game states of the model.
GameStates == UNION {WithActions(b.state) : b \in {x \in Built : x.ok}}

\* The values of config.samples_per_iteration.
SampleCounts == {1}

\* The configurations of the model: seeded, default threshold.
Configs ==
    {[iterations |-> n, samples_per_iteration |-> s,
      convergence_threshold |-> DefaultThreshold, seed |-> Some(sd)] :
        n \in 0..MaxIter, s \in SampleCounts, sd \in Seeds}

----------------------------------------------------------------------------
(* The state of one call of solve_with_config(state, config) and of the    *)
(* callers around it.                                                      *)

VARIABLES
    state,                \* the GameState passed in
    config,               \* the MccfrConfig passed in
    pc,                   \* "ready", "iter" (loop head), "sample" (inner
                          \* loop), "exit" (loop left), "done" (returned),
                          \* "panic" (aborted)
    i,                    \* the iteration index of the for loop
    j,                    \* the samples of iteration i already traversed
    regret_table,
    sampler,
    convergence_tracker,
    result,               \* what solve_with_config returned
    checkpoints,          \* the checkpoints at which is_converged held
    cli,                  \* solver::solve's result and main's exit code
    first,                \* the outcome of an earlier call on an equal state
    rm,                   \* a call of regret_to_strategy: input and output
    call                  \* a call of one function of the crate on its own:
                          \* its name, its arguments and what it returned

vars == <<state, config, pc, i, j, regret_table, sampler, convergence_tracker,
          result, checkpoints, cli, first, rm, call>>

NoStrategy == Strategy_new(<<>>, 0, Zero)
NoResult == [kind |-> "None", strategy |-> NoStrategy]
Ok(strategy) == [kind |-> "Ok", strategy |-> strategy]
NoCli == [result |-> NoResult, exit_code |-> -1]
NoFirst == [called |-> FALSE, result |-> NoResult, iterations |-> 0, order |-> <<>>]
NoRm == [called |-> FALSE, regrets |-> <<>>, strategy |-> <<>>]
NoCall == [fn |-> "none", done |-> FALSE]

\* Before a call of solve_with_config(s, c).
Ready(s, c) ==
    /\ state = s
    /\ config = c
    /\ pc = "ready"
    /\ i = 0
    /\ j = 0
    /\ regret_table = RegretTable_new
    /\ sampler = McSampler_new(0)
    /\ convergence_tracker = ConvergenceTracker_new
    /\ result = NoResult
    /\ checkpoints = {}
    /\ cli = NoCli
    /\ first = NoFirst
    /\ rm = NoRm
    /\ call = NoCall

Init == \E s \in GameStates, c \in Configs : Ready(s, c)

\* solve_with_config up to its loop: the table, the sampler and the tracker
\* are created.
SolveWithConfig ==
    /\ pc = "ready"
    /\ pc' = "iter"
    /\ i' = 0
    /\ j' = 0
    /\ regret_table' = RegretTable_new
    /\ sampler' = McSampler_new(config.seed.v)
    /\ convergence_tracker' = ConvergenceTracker_new
    /\ checkpoints' = {}
    /\ UNCHANGED <<state, config, result, cli, first, rm, call>>

\* Whether iteration idx begins with a convergence check.
CheckDue(idx) == idx > 0 /\ idx % CheckInterval(config.iterations) = 0

\* A checkpoint: the tracker after check_convergence, and whether the loop
\* goes on.
Checkpoint(checked) ==
    /\ convergence_tracker' = checked
    /\ checkpoints' = IF is_converged(checked, config.convergence_threshold)
                      THEN checkpoints \cup {i} ELSE checkpoints
    /\ pc' = IF EarlyStop(checked, config.convergence_threshold) THEN "exit"
             ELSE "sample"

\* The head of the for loop for iteration i: the convergence check when one
\* is due, then the inner loop starts.
IterBegin ==
    /\ pc = "iter"
    /\ i < config.iterations
    /\ IF CheckDue(i)
       THEN Checkpoint(check_convergence(convergence_tracker, regret_table))
       ELSE /\ pc' = "sample"
            /\ UNCHANGED <<convergence_tracker, checkpoints>>
    /\ j' = 0
    /\ UNCHANGED <<state, config, i, regret_table, sampler, result, cli, first, rm, call>>

\* The traversal of one sample has returned, or has panicked.
Traversed(tr) ==
    IF tr.ok
    THEN /\ pc' = "sample"
         /\ regret_table' = tr.table
         /\ sampler' = tr.sampler
    ELSE /\ pc' = "panic"
         /\ UNCHANGED <<regret_table, sampler>>

\* The body of the inner loop, sh being what sample_hand returned: nothing
\* is traversed when the range is empty.
Sampled(sh) ==
    IF sh.some
    THEN Traversed(traverse(RootOf(state), TraverserOf(state, i), state.hero_hand,
                            sh.hand, regret_table, sh.sampler))
    ELSE /\ pc' = "sample"
         /\ UNCHANGED <<regret_table, sampler>>

\* One pass of the inner loop: sample a villain hand and traverse from the
\* root.
SampleTraverse ==
    /\ pc = "sample"
    /\ j < config.samples_per_iteration
    /\ Sampled(sample_hand(sampler, state.villain_range))
    /\ j' = j + 1
    /\ UNCHANGED <<state, config, i, convergence_tracker, result, checkpoints, cli,
                   first, rm, call>>

\* The inner loop is over: on to the next iteration.
IterEnd ==
    /\ pc = "sample"
    /\ j = config.samples_per_iteration
    /\ i' = i + 1
    /\ pc' = "iter"
    /\ UNCHANGED <<state, config, j, regret_table, sampler, convergence_tracker,
                   result, checkpoints, cli, first, rm, call>>

\* The return of solve_with_config, the final check being done.
Return(checked) ==
    /\ convergence_tracker' = checked
    /\ result' = Ok(extract_strategy(RootOf(state), regret_table, config.iterations,
                                     checked.max_change))

\* After the loop: the final convergence check and extract_strategy.
Finish ==
    /\ \/ pc = "iter" /\ i >= config.iterations
       \/ pc = "exit"
    /\ Return(check_convergence(convergence_tracker, regret_table))
    /\ pc' = "done"
    /\ UNCHANGED <<state, config, i, j, regret_table, sampler, checkpoints, cli,
                   first, rm, call>>

\* What main does with the result of solver::solve: print it and exit with
\* success, or report the error and exit with 1.
Exit(r) == cli' = [result |-> r, exit_code |-> IF r.kind = "Ok" THEN 0 ELSE 1]

\* main's "Solve" step on the same state and iteration count, through the
\* exported solver::solve.
Analyze ==
    /\ pc = "done"
    /\ cli = NoCli
    /\ Exit(solve(state, config.iterations))
    /\ UNCHANGED <<state, config, pc, i, j, regret_table, sampler, convergence_tracker,
                   result, checkpoints, first, rm, call>>

Next ==
    \/ SolveWithConfig
    \/ IterBegin
    \/ SampleTraverse
    \/ IterEnd
    \/ Finish
    \/ Analyze

Spec == Init /\ [][Next]_vars

----------------------------------------------------------------------------
(* Two calls in a row on equal states, as a caller comparing two solves    *)
(* makes them.                                                             *)

\* The states of the two-call specification: the solver's default actions.
TwiceStates == {s \in GameStates : s.available_actions = <<>>}

InitTwice == \E s \in TwiceStates, c \in Configs : Ready(s, c)

\* The first call has returned; the caller keeps its outcome and calls
\* again with an equal state (the same map from hand to weight, in a
\* HashMap that may iterate in another order), the same seed, samples and
\* threshold, and an iteration count that is the same or larger.
SecondCall ==
    /\ pc = "done"
    /\ ~first.called
    /\ first' = [called |-> TRUE, result |-> result, iterations |-> config.iterations,
                 order |-> state.villain_range.order]
    /\ \E n \in config.iterations..MaxIter,
          o \in Perms(DOMAIN state.villain_range.hands) :
          /\ config' = [config EXCEPT !.iterations = n]
          /\ state' = [state EXCEPT !.villain_range.order = o]
    /\ pc' = "ready"
    /\ result' = NoResult
    /\ UNCHANGED <<i, j, regret_table, sampler, convergence_tracker, checkpoints,
                   cli, rm, call>>

NextTwice ==
    \/ SolveWithConfig
    \/ IterBegin
    \/ SampleTraverse
    \/ IterEnd
    \/ Finish
    \/ Analyze
    \/ SecondCall

SpecTwice == InitTwice /\ [][NextTwice]_vars

----------------------------------------------------------------------------
(* regret_to_strategy on its own: every regret vector up to the bounds.    *)

RECURSIVE SeqsUpTo(_, _)
\* The sequences over S of length at most n.
SeqsUpTo(S, n) ==
    IF n = 0 THEN {<<>>}
    ELSE SeqsUpTo(S, n - 1) \cup {s \in [1..n -> S] : TRUE}

\* The regret vectors of the model.
RegretVectors == SeqsUpTo({Q(r, 1) : r \in (0 - MaxRegret)..MaxRegret}, MaxLen)

InitRM ==
    /\ state = <<>>
    /\ config = <<>>
    /\ pc = "regret"
    /\ i = 0
    /\ j = 0
    /\ regret_table = RegretTable_new
    /\ sampler = McSampler_new(0)
    /\ convergence_tracker = ConvergenceTracker_new
    /\ result = NoResult
    /\ checkpoints = {}
    /\ cli = NoCli
    /\ first = NoFirst
    /\ \E r \in RegretVectors : rm = [called |-> FALSE, regrets |-> r, strategy |-> <<>>]
    /\ call = NoCall

\* A call of regret_to_strategy(rm.regrets).
RegretToStrategy ==
    /\ pc = "regret"
    /\ ~rm.called
    /\ rm' = [rm EXCEPT !.called = TRUE, !.strategy = regret_to_strategy(rm.regrets)]
    /\ UNCHANGED <<state, config, pc, i, j, regret_table, sampler, convergence_tracker,
                   result, checkpoints, cli, first, call>>

NextRM == RegretToStrategy

SpecRM == InitRM /\ [][NextRM]_vars

----------------------------------------------------------------------------
(* The functions of models/ and of the solver called on their own: each    *)
(* behaviour begins with the arguments of one call and makes that call.    *)

\* The solver's variables, which a call on its own leaves alone.
solver_vars == <<state, config, pc, i, j, regret_table, sampler, convergence_tracker, result, checkpoints, cli, first, rm>>

\* No call of solve_with_config is in progress.
Parked ==
    /\ state = <<>>
    /\ config = <<>>
    /\ pc = "call"
    /\ i = 0
    /\ j = 0
    /\ regret_table = RegretTable_new
    /\ sampler = McSampler_new(0)
    /\ convergence_tracker = ConvergenceTracker_new
    /\ result = NoResult
    /\ checkpoints = {}
    /\ cli = NoCli
    /\ first = NoFirst
    /\ rm = NoRm

\* The cards named in the calls below.
Deck ==
    [Ah |-> Card_new(14, Hearts), Ac |-> Card_new(14, Clubs), As |-> Card_new(14, Spades),
     Kd |-> Card_new(13, Diamonds)]

\* Canonical hands of "AA" (range.rs canonical_hand: of a pair the lower
\* suit first).
AceCombos == {Hand_new(Deck.Ah, Deck.Ac), Hand_new(Deck.Ah, Deck.As), Hand_new(Deck.Ac, Deck.As)}

\* The ranges remove_blockers is called on: some of the combos, each at
\* weight 1/2 or 1, in every iteration order; and the blocker lists.
BlockerRanges ==
    UNION {RangesOf(m) : m \in UNION {[D -> {Q(1, 2), One}] : D \in SUBSET AceCombos}}
BlockerLists == SUBSET {Deck.Ah, Deck.Ac, Deck.Kd}

\* Before range.remove_blockers(cards); it may be called twice.
InitRemoveBlockers ==
    \E r \in BlockerRanges, c \in BlockerLists :
        call = [fn |-> "remove_blockers", calls |-> 0, prior |-> r, self |-> r, cards |-> c]

\* range.remove_blockers(cards): the range is changed in place.
RemoveBlockers ==
    /\ call.fn = "remove_blockers"
    /\ call.calls < 2
    /\ call' = [call EXCEPT !.calls = @ + 1, !.self = remove_blockers(call.self, call.cards)]
    /\ UNCHANGED solver_vars

\* The arguments GameState::new is called with: valid ones and ones that
\* break each rule (a card twice in hero's hand, on the board, or in both;
\* boards of 0 to 6 cards; amounts below, at and above their limits).
NewHands == HeroHands \cup {Hand_new(Deck.Ah, Deck.Ah), Hand_new(Deck.Ah, Board[1])}
NewBoards == {SubSeq(Board, 1, n) : n \in 0..5} \cup {Board \o <<Deck.Kd>>, <<Board[1], Board[2], Board[1]>>}
NewAmounts == {Q(a, 1) : a \in {-1, 0, 5, 10, 11}}

\* Before GameState::new(hero_hand, board, pot_size, effective_stack,
\* to_call, position, villain_range).
InitGameStateNew ==
    \E h \in NewHands, b \in NewBoards, p \in NewAmounts, s \in NewAmounts, c \in NewAmounts, pos \in {IP, OOP} :
        call = [fn |-> "GameState::new", done |-> FALSE, hero_hand |-> h, board |-> b, pot_size |-> p,
                effective_stack |-> s, to_call |-> c, position |-> pos,
                villain_range |-> Range_new, ret |-> <<>>]

\* The call of GameState::new.
GameStateNew ==
    /\ call.fn = "GameState::new"
    /\ ~call.done
    /\ call' = [call EXCEPT !.done = TRUE,
                            !.ret = GameState_new(call.hero_hand, call.board, call.pot_size,
                                                  call.effective_stack, call.to_call,
                                                  call.position, call.villain_range)]
    /\ UNCHANGED solver_vars

\* Before Hand::new(card1, card2) and Hand::new(card2, card1).
InitHandNew ==
    \E a, b \in {Deck.Ah, Deck.Ac, Deck.Kd} :
        call = [fn |-> "Hand::new", calls |-> 0, card1 |-> a, card2 |-> b, hands |-> <<>>]

\* Hand::new on the two cards, the second time in the opposite order.
HandNew ==
    /\ call.fn = "Hand::new"
    /\ call.calls < 2
    /\ call' = [call EXCEPT !.calls = @ + 1,
                            !.hands = Append(@, IF call.calls = 0
                                                THEN Hand_new(call.card1, call.card2)
                                                ELSE Hand_new(call.card2, call.card1))]
    /\ UNCHANGED solver_vars

\* The halves of the strings Hand::from_str is called on.
Halves == SeqsUpTo({"A", "h", "K", "d", "U+00E9"}, 2)

\* Before Hand::from_str on a string and on the string with its halves
\* exchanged.
InitHandFromStr ==
    \E a, b \in Halves :
        call = [fn |-> "Hand::from_str", calls |-> 0, strs |-> <<a \o b, b \o a>>, rets |-> <<>>]

\* Hand::from_str on the next of the two strings.
HandFromStr ==
    /\ call.fn = "Hand::from_str"
    /\ call.calls < 2
    /\ call' = [call EXCEPT !.calls = @ + 1,
                            !.rets = Append(@, Hand_from_str(call.strs[call.calls + 1]))]
    /\ UNCHANGED solver_vars

\* The actions Action::amount is called on, over the bet sizes 0, 1/2, 2
\* and 20.
SizedActions ==
    {Fold, Check, Call, AllIn}
    \cup UNION {{Bet(PotFraction(f)), Bet(Amount(f)), Raise(PotFraction(f)), Raise(Amount(f))} :
                   f \in {Zero, Q(1, 2), Q(2, 1), Q(20, 1)}}

\* Before action.amount(pot, stack, to_call), the amounts non-negative.
InitActionAmount ==
    \E a \in SizedActions, p \in {Zero, Q(10, 1)}, s \in {Zero, Q(5, 1), Q(100, 1)}, c \in {Zero, Q(5, 1), Q(200, 1)} :
        call = [fn |-> "Action::amount", done |-> FALSE, self |-> a, pot |-> p, stack |-> s,
                to_call |-> c, ret |-> Zero]

\* The call of Action::amount.
ActionAmount ==
    /\ call.fn = "Action::amount"
    /\ ~call.done
    /\ call' = [call EXCEPT !.done = TRUE,
                            !.ret = Action_amount(call.self, call.pot, call.stack, call.to_call)]
    /\ UNCHANGED solver_vars

\* Before Card::from_str(s): s of up to three chars, among them ranks and
\* suits in either case, chars that are neither, and a non-ASCII char.
InitCardFromStr ==
    \E s \in SeqsUpTo({"A", "a", "T", "2", "h", "S", "x", "U+00E9"}, 3) :
        call = [fn |-> "Card::from_str", done |-> FALSE, s |-> s, ret |-> <<>>]

\* The call of Card::from_str.
CardFromStr ==
    /\ call.fn = "Card::from_str"
    /\ ~call.done
    /\ call' = [call EXCEPT !.done = TRUE, !.ret = Card_from_str(call.s)]
    /\ UNCHANGED solver_vars

\* Before apply_action(state, action).
InitApplyAction ==
    \E s \in GameStates, a \in SizedActions :
        call = [fn |-> "apply_action", done |-> FALSE, state |-> s, action |-> a, ret |-> <<>>]

\* The call of apply_action, which reads its arguments only.
ApplyAction ==
    /\ call.fn = "apply_action"
    /\ ~call.done
    /\ call' = [call EXCEPT !.done = TRUE, !.ret = apply_action(call.state, call.action)]
    /\ UNCHANGED solver_vars

\* The nodes traverse is called at: each position, to_call 0 and 5, with
\* the default action list or a single action that ends the hand.
TraverseStates ==
    {[b.state EXCEPT !.available_actions = a] :
         b \in {x \in Built : x.ok /\ x.state.villain_range = Range_new},
         a \in {<<>>, <<Fold>>, <<Call>>, <<Check>>}}

\* The opponent's hands: behind the traverser's pair of fours, ahead of it,
\* and level with it (the other two fours).
OpponentHands == {Air, TwoPair, Hand_new(Card_new(4, Hearts), Card_new(4, Spades))}

\* Before traverse(state, traverser, hero_hand, villain_hand, regret_table,
\* sampler), the table empty.
InitTraverse ==
    \E s \in TraverseStates, tr \in {IP, OOP}, h \in HeroHands, v \in OpponentHands, sd \in Seeds :
        call = [fn |-> "traverse", done |-> FALSE, state |-> s, traverser |-> tr, hero_hand |-> h,
                villain_hand |-> v, sampler |-> McSampler_new(sd), ret |-> <<>>]

\* The call of traverse.
Traverse ==
    /\ call.fn = "traverse"
    /\ ~call.done
    /\ call' = [call EXCEPT !.done = TRUE,
                            !.ret = traverse(call.state, call.traverser, call.hero_hand,
                                             call.villain_hand, RegretTable_new, call.sampler)]
    /\ UNCHANGED solver_vars

\* The keys, the action counts and the updates (regrets, reach_prob) of
\* the calls made on a RegretTable.
TableKeys == {[hero_hand |-> Hand_new(Deck.Ah, Deck.As), spr_bucket |-> "Medium", position |-> pos] : pos \in {IP, OOP}}
TableUpdates == {<<<<Q(1, 1), Q(-1, 1)>>, One>>, <<<<Q(-1, 1), Q(2, 1)>>, Q(1, 2)>>, <<<<Q(1, 1)>>, One>>}

\* RegretTable::new() and ConvergenceTracker::new(), before any call on
\* them; last is the latest call, with the table and the tracker before it,
\* and checked is the table as the latest check_convergence saw it.
InitRegretTable ==
    call = [fn |-> "RegretTable", calls |-> 0, table |-> RegretTable_new,
            tracker |-> ConvergenceTracker_new, checked |-> None, last |-> [op |-> "new"]]

\* table.get_strategy(key, n_actions)
GetStrategy ==
    /\ call.fn = "RegretTable"
    /\ call.calls < MaxCalls
    /\ \E key \in TableKeys, n \in 1..2 :
           call' = [call EXCEPT !.calls = @ + 1,
                                !.table = get_strategy(call.table, key, n).table,
                                !.last = [op |-> "get_strategy", key |-> key, n_actions |-> n,
                                          table |-> call.table, tracker |-> call.tracker,
                                          ret |-> get_strategy(call.table, key, n).strategy]]
    /\ UNCHANGED solver_vars

\* The state after update_regrets has returned (up), or has panicked: no
\* further call is made.
Updated(key, u, up) ==
    call' = [call EXCEPT !.calls = IF up.ok THEN @ + 1 ELSE MaxCalls,
                         !.table = IF up.ok THEN up.table ELSE @,
                         !.last = [op |-> "update_regrets", key |-> key, new_regrets |-> u[1],
                                   reach_prob |-> u[2], table |-> call.table,
                                   tracker |-> call.tracker, ok |-> up.ok]]

\* table.update_regrets(key, new_regrets, reach_prob)
UpdateRegrets ==
    /\ call.fn = "RegretTable"
    /\ call.calls < MaxCalls
    /\ \E key \in TableKeys, u \in TableUpdates :
           Updated(key, u, update_regrets(call.table, key, u[1], u[2]))
    /\ UNCHANGED solver_vars

\* tracker.check_convergence(&table)
CheckConvergence ==
    /\ call.fn = "RegretTable"
    /\ call.calls < MaxCalls
    /\ call' = [call EXCEPT !.calls = @ + 1,
                            !.tracker = check_convergence(call.tracker, call.table),
                            !.checked = Some(call.table),
                            !.last = [op |-> "check_convergence", table |-> call.table,
                                      tracker |-> call.tracker, checked |-> call.checked]]
    /\ UNCHANGED solver_vars

\* The roots of the game tree: what GameState::new returns for a pot of 10,
\* a stack of 3 or 100 and nothing or 3 to call, with no action list or a
\* list of one action of any size.
TreeRoots ==
    {[GameState_new(h, Board, Q(10, 1), s, c, pos, Range_new).state EXCEPT !.available_actions = l] :
         h \in HeroHands, s \in {Q(3, 1), Q(100, 1)}, c \in {Zero, Q(3, 1)}, pos \in {IP, OOP},
         l \in {<<>>} \cup {<<a>> : a \in SizedActions}}

\* At the root of the tree: node is the state traverse is called at, path
\* the actions taken from the root to it.
InitDescend ==
    \E s \in TreeRoots : call = [fn |-> "descend", root |-> s, node |-> Some(s), path |-> <<>>]

\* One level of traverse's recursion: an action of the node's list is
\* applied and traverse is called at the next state, if there is one.
Descend ==
    /\ call.fn = "descend"
    /\ call.node.some
    /\ Len(call.path) < MaxDepth
    /\ \E k \in 1..Len(ActionsOf(call.node.v)) :
           call' = [call EXCEPT !.node = apply_action(call.node.v, ActionsOf(call.node.v)[k]).next,
                                !.path = Append(@, ActionsOf(call.node.v)[k])]
    /\ UNCHANGED solver_vars

\* What pokers may hand to from_notation: up to two combos of two different
\* cards out of Ah (48), As (49), Ac (50) and Kd (47), in either order, at
\* weight 100 or 50.
PokersCombos ==
    SeqsUpTo({<<a, b, w>> : a \in {47, 48, 49, 50}, b \in {47, 48, 49, 50}, w \in {50, 100}} \ {<<a, a, w>> : a \in {47, 48, 49, 50}, w \in {50, 100}}, 2)

\* Before Range::from_notation(notation).
InitFromNotation ==
    \E blank \in BOOLEAN, combos \in PokersCombos :
        /\ blank => combos = <<>>
        /\ call = [fn |-> "Range", stage |-> "new", blank |-> blank, combos |-> combos,
                   self |-> Range_new, removed |-> FALSE, hand |-> <<>>, found |-> FALSE]

\* The range from_notation returned (built), in the iteration order its
\* HashMap happens to have, or its error (err).
Parsed(fn) ==
    IF fn.ok
    THEN \E r \in RangesOf(fn.hands) : call' = [call EXCEPT !.stage = "built", !.self = r]
    ELSE call' = [call EXCEPT !.stage = "err"]

\* Range::from_notation(notation)
FromNotation ==
    /\ call.fn = "Range"
    /\ call.stage = "new"
    /\ Parsed(Range_from_notation(call.blank, call.combos))
    /\ UNCHANGED solver_vars

\* range.remove_blockers(cards) on the parsed range.
ParsedRemoveBlockers ==
    /\ call.fn = "Range"
    /\ call.stage = "built"
    /\ ~call.removed
    /\ call.hand = <<>>
    /\ \E cards \in BlockerLists :
           call' = [call EXCEPT !.removed = TRUE, !.self = remove_blockers(call.self, cards)]
    /\ UNCHANGED solver_vars

\* range.contains(hand), the hand listing its cards in either order.
Contains ==
    /\ call.fn = "Range"
    /\ call.stage = "built"
    /\ \E c1, c2 \in {Deck.Ah, Deck.Ac, Deck.As, Deck.Kd} :
           /\ c1 # c2
           /\ call' = [call EXCEPT !.hand = Hand_new(c1, c2),
                                   !.found = Range_contains(call.self, Hand_new(c1, c2))]
    /\ UNCHANGED solver_vars

InitCalls == Parked /\ (InitRemoveBlockers \/ InitGameStateNew \/ InitHandNew \/ InitHandFromStr \/ InitActionAmount \/ InitCardFromStr \/ InitApplyAction \/ InitTraverse \/ InitRegretTable \/ InitDescend \/ InitFromNotation)

NextCalls == RemoveBlockers \/ GameStateNew \/ HandNew \/ HandFromStr \/ ActionAmount \/ CardFromStr \/ ApplyAction \/ Traverse \/ GetStrategy \/ UpdateRegrets \/ CheckConvergence \/ Descend \/ FromNotation \/ ParsedRemoveBlockers \/ Contains

SpecCalls == InitCalls /\ [][NextCalls]_vars


\* The decision nodes traverse can be called at from node on: the node
\* itself and, for each action of its list that apply_action does not end
\* the hand with, the nodes from the next state on, to the given depth.
RECURSIVE DecisionNodes(_, _)
ChildNodes(applied, depth) == IF applied.is_terminal THEN {} ELSE DecisionNodes(applied.next.v, depth - 1)
DecisionNodes(node, depth) ==
    IF depth = 0 THEN {}
    ELSE {node} \cup UNION {ChildNodes(apply_action(node, ActionsOf(node)[k]), depth) :
                               k \in 1..Len(ActionsOf(node))}

----------------------------------------------------------------------------
(* The claims.                                                             *)

\* The actions of a Strategy, in order.
ActionList(strategy) == [k \in 1..Len(strategy.actions) |-> strategy.actions[k].action]

\* The information-set key of the root.
RootKey == InfoSetKey_from_game_state(RootOf(state))

\* The call has returned a Strategy.
Returned_Ok == pc = "done" /\ result.kind = "Ok"

\* C1: every Strategy returned by solve_with_config has action frequencies
\* that sum to 1 within 0.001 (Strategy::is_valid), whatever the state, the
\* root action list, the position, the range and the iteration count.
C1_FrequenciesSumToOne == result.kind = "Ok" => Strategy_is_valid(result.strategy)

\* A strategy returned after training on a three-action root against a
\* two-combo range, with a frequency that is neither 0, 1 nor uniform.
C1_Witness ==
    /\ Returned_Ok
    /\ config.iterations > 0
    /\ Len(state.available_actions) = 3
    /\ num_combos(state.villain_range) = 2
    /\ \E k \in 1..Len(result.strategy.actions) :
          result.strategy.actions[k].frequency \notin {Zero, One, <<1, 3>>}

\* C2: the returned strategy pairs the i-th root action with the i-th
\* component of the average strategy of the root key (strategy_sum divided
\* by its total), and is uniform over the root actions when the root key has
\* no strategy sum.
C2_AverageStrategy ==
    pc = "done" =>
        /\ ActionList(result.strategy) = ActionsOf(state)
        /\ IF RootKey \in DOMAIN regret_table.strategy_sum
           THEN \A k \in 1..Len(ActionsOf(state)) :
                    QMul(result.strategy.actions[k].frequency,
                         QSum(regret_table.strategy_sum[RootKey]))
                        = regret_table.strategy_sum[RootKey][k]
           ELSE \A k \in 1..Len(ActionsOf(state)) :
                    result.strategy.actions[k].frequency = Q(1, Len(ActionsOf(state)))

\* A returned strategy whose root key has a strategy sum, the average
\* strategy differing from the regret-matched current one.
C2_Witness ==
    /\ pc = "done"
    /\ RootKey \in DOMAIN regret_table.strategy_sum
    /\ Frequencies(result.strategy) # regret_to_strategy(regret_table.regrets[RootKey])

\* C3: two runs on equal states with the same seed (and the same iteration
\* count) return the same frequencies and the same convergence, whatever
\* order the range's hash map is iterated in.
C3_SeededRunsAgree ==
    (pc = "done" /\ first.called /\ first.iterations = config.iterations) =>
        /\ Frequencies(result.strategy) = Frequencies(first.result.strategy)
        /\ result.strategy.convergence = first.result.strategy.convergence

\* Hero's hand beats every combo of the (non-empty) villain range.
HeroBeatsRange ==
    /\ num_combos(state.villain_range) > 0
    /\ \A h \in DOMAIN state.villain_range.hands :
          evaluate_hand(state.hero_hand, state.board) > evaluate_hand(h, state.board)

\* The total frequency of the Bet and AllIn actions of a strategy.
BetAllInFrequency(strategy) ==
    QSum([k \in 1..Len(strategy.actions) |->
             IF strategy.actions[k].action.tag \in {"Bet", "AllIn"}
             THEN strategy.actions[k].frequency ELSE Zero])

\* C4: nuts versus air with hero in position and nothing to call: the
\* trained strategy puts more than 0.90 on Bet and AllIn together.
C4_NutsVsAirBets ==
    (Returned_Ok /\ config.iterations >= 1 /\ state.position = IP
       /\ state.to_call = Zero /\ HeroBeatsRange
       /\ \E k \in 1..Len(ActionsOf(state)) : ActionsOf(state)[k].tag \in {"Bet", "AllIn"})
    => QLt(<<9, 10>>, BetAllInFrequency(result.strategy))

\* C5: for a state with empty available_actions the exported solver::solve
\* returns the same ordered action list as solve_with_config.
C5_SolveIsMccfr ==
    (Returned_Ok /\ cli # NoCli /\ state.available_actions = <<>>) =>
        /\ cli.result.kind = "Ok"
        /\ ActionList(cli.result.strategy) = ActionList(result.strategy)

C7_ConvergenceMonotone ==
    (pc = "done" /\ first.called /\ 1 <= first.iterations
       /\ first.iterations < config.iterations
       /\ first.order = state.villain_range.order) =>
        QLe(result.strategy.convergence, first.result.strategy.convergence)

\* C8: solve_with_config never aborts on an index out of range, for any
\* non-empty caller-supplied action list, position and stack-to-pot ratio.
C8_NoAbort == pc # "panic"

\* C9: an empty villain range is reported as an error: no Strategy is
\* returned and the CLI does not exit with success.
C9_EmptyRangeIsError ==
    num_combos(state.villain_range) = 0 =>
        /\ result.kind # "Ok"
        /\ cli.exit_code # 0

\* The sum of the positive components of a regret vector.
PositiveSum(r) == QSum([k \in 1..Len(r) |-> IF QLt(Zero, r[k]) THEN r[k] ELSE Zero])

\* C10 as stated: for every regret vector r, regret_to_strategy(r) has the
\* length of r, non-negative components that sum to 1, 0 at every negative
\* component of r and r_i over the sum of the positive components at every
\* positive one.
C10_AsStated ==
    rm.called =>
        /\ Len(rm.strategy) = Len(rm.regrets)
        /\ \A k \in 1..Len(rm.strategy) : QLe(Zero, rm.strategy[k])
        /\ QSum(rm.strategy) = One
        /\ \A k \in 1..Len(rm.regrets) :
              /\ QLt(rm.regrets[k], Zero) => rm.strategy[k] = Zero
              /\ QLt(Zero, rm.regrets[k]) =>
                    rm.strategy[k] = QDiv(rm.regrets[k], PositiveSum(rm.regrets))

\* C10, amended: regret_to_strategy(r) has the length of r and non-negative
\* components, which sum to 1 unless r is empty; when some component of r is
\* positive, every component that is not positive maps to 0 and every
\* positive one to r_i over the sum of the positive components; when none is
\* positive, every component (negative ones too) maps to 1 / len(r).
C10_RegretMatching ==
    rm.called =>
        /\ Len(rm.strategy) = Len(rm.regrets)
        /\ \A k \in 1..Len(rm.strategy) : QLe(Zero, rm.strategy[k])
        /\ rm.regrets # <<>> => QSum(rm.strategy) = One
        /\ IF QLt(Zero, PositiveSum(rm.regrets))
           THEN \A k \in 1..Len(rm.regrets) :
                    rm.strategy[k] = IF QLt(Zero, rm.regrets[k])
                                     THEN QDiv(rm.regrets[k], PositiveSum(rm.regrets))
                                     ELSE Zero
           ELSE \A k \in 1..Len(rm.regrets) : rm.strategy[k] = Q(1, Len(rm.regrets))

\* regret_to_strategy has run on a vector of the largest length with a
\* negative component next to two different positive ones.
C10_Witness ==
    /\ rm.called
    /\ Len(rm.regrets) = MaxLen
    /\ \E a, b, c \in 1..Len(rm.regrets) :
          /\ QLt(rm.regrets[a], Zero)
          /\ QLt(Zero, rm.regrets[b])
          /\ QLt(rm.regrets[b], rm.regrets[c])


\* The hands of a range none of whose two cards is in cards.
Unblocked(range, cards) == {h \in DOMAIN range.hands : h[1] \notin cards /\ h[2] \notin cards}

\* C11: after remove_blockers(cards), once or twice, the range holds exactly
\* the hands of the prior range with neither card in cards, each at its prior
\* weight; so no remaining hand contains a blocker, nothing was added or
\* renormalised, and the second application changed nothing.
C11_RemoveBlockers ==
    (call.fn = "remove_blockers" /\ call.calls >= 1) =>
        /\ DOMAIN call.self.hands = Unblocked(call.prior, call.cards)
        /\ \A h \in DOMAIN call.self.hands : call.self.hands[h] = call.prior.hands[h]
        /\ \A h \in DOMAIN call.self.hands : h[1] \notin call.cards /\ h[2] \notin call.cards
        /\ remove_blockers(call.self, call.cards) = call.self

\* remove_blockers applied twice to a range of three hands: one is kept at
\* its weight 1/2, one is removed for its second card alone.
C11_Witness ==
    /\ call.fn = "remove_blockers"
    /\ call.calls = 2
    /\ call.cards = {Deck.Ac, Deck.Kd}
    /\ DOMAIN call.prior.hands = AceCombos
    /\ call.prior.hands[Hand_new(Deck.Ah, Deck.As)] = Q(1, 2)
    /\ DOMAIN call.self.hands = {Hand_new(Deck.Ah, Deck.As)}
    /\ call.self.hands[Hand_new(Deck.Ah, Deck.As)] = Q(1, 2)


\* Whether the arguments of the call break a rule of GameState::new.
C12_Rejected ==
    \/ call.pot_size[1] <= 0
    \/ call.effective_stack[1] <= 0
    \/ call.to_call[1] < 0
    \/ call.to_call[1] * call.effective_stack[2] > call.effective_stack[1] * call.to_call[2]
    \/ Len(call.board) \notin {0, 3, 4, 5}
    \/ call.hero_hand[1] = call.hero_hand[2]
    \/ \E k \in 1..Len(call.board) : call.board[k] \in {call.hero_hand[1], call.hero_hand[2]}
    \/ \E k, l \in 1..Len(call.board) : k # l /\ call.board[k] = call.board[l]

\* C12: GameState::new returns an error exactly when pot_size <= 0, or
\* effective_stack <= 0, or to_call < 0, or to_call > effective_stack, or the
\* board has not 0, 3, 4 or 5 cards, or a card occurs twice among hero's cards
\* and the board; otherwise it returns the state with the given fields, the
\* street of the board length and no available actions.
C12_GameStateNew ==
    (call.fn = "GameState::new" /\ call.done) =>
        /\ call.ret.ok = ~C12_Rejected
        /\ call.ret.ok =>
              call.ret.state =
                  [hero_hand |-> call.hero_hand,
                   board |-> call.board,
                   pot_size |-> call.pot_size,
                   effective_stack |-> call.effective_stack,
                   to_call |-> call.to_call,
                   position |-> call.position,
                   villain_range |-> call.villain_range,
                   street |-> CASE Len(call.board) = 0 -> "Preflop"
                                [] Len(call.board) = 3 -> "Flop"
                                [] Len(call.board) = 4 -> "Turn"
                                [] Len(call.board) = 5 -> "River",
                   available_actions |-> <<>>]

\* GameState::new has accepted a turn board with to_call equal to the stack.
C12_Witness ==
    /\ call.fn = "GameState::new"
    /\ call.done
    /\ call.ret.ok
    /\ call.ret.state.street = "Turn"
    /\ call.to_call = call.effective_stack
    /\ call.ret.state.position = OOP


\* C13: two Hands built from the same two distinct cards in opposite orders
\* are equal, whether built by Hand::new or parsed by Hand::from_str.
C13_OrderIrrelevant ==
    /\ (call.fn = "Hand::new" /\ call.calls = 2 /\ call.card1 # call.card2) =>
           call.hands[1] = call.hands[2]
    /\ (call.fn = "Hand::from_str" /\ call.calls = 2 /\ call.rets[1].kind = "Ok") =>
           call.rets[1] = call.rets[2]


\* x capped by the stack of the call.
C14_Capped(x) == IF QLe(x, call.stack) THEN x ELSE call.stack

\* C14: for non-negative pot, stack, to_call and bet size, Action::amount is
\* 0 for Fold and Check, to_call for Call, min(pot * f, stack) for
\* Bet(PotFraction f), min(a, stack) for Bet(Amount a) and Raise(Amount a),
\* min(to_call + pot * f, stack) for Raise(PotFraction f) and stack for AllIn;
\* so a Bet, Raise or AllIn never commits more than the stack.
C14_ActionAmount ==
    (call.fn = "Action::amount" /\ call.done) =>
        /\ call.self.tag \in {"Fold", "Check"} => call.ret = Zero
        /\ call.self.tag = "Call" => call.ret = call.to_call
        /\ (call.self.tag = "Bet" /\ call.self.size.kind = "PotFraction") =>
               call.ret = C14_Capped(QMul(call.pot, call.self.size.v))
        /\ (call.self.tag \in {"Bet", "Raise"} /\ call.self.size.kind = "Amount") =>
               call.ret = C14_Capped(call.self.size.v)
        /\ (call.self.tag = "Raise" /\ call.self.size.kind = "PotFraction") =>
               call.ret = C14_Capped(QAdd(call.to_call, QMul(call.pot, call.self.size.v)))
        /\ call.self.tag = "AllIn" => call.ret = call.stack
        /\ call.self.tag \in {"Bet", "Raise", "AllIn"} => QLe(call.ret, call.stack)

\* Action::amount has capped a pot-fraction raise of 5 + 10 * 2 by a stack
\* of 5.
C14_Witness ==
    /\ call.fn = "Action::amount"
    /\ call.done
    /\ call.self = Raise(PotFraction(Q(2, 1)))
    /\ call.pot = Q(10, 1)
    /\ call.to_call = Q(5, 1)
    /\ call.stack = Q(5, 1)
    /\ call.ret = Q(5, 1)


\* The chars of a rank and of a suit, in either case.
RankChars == {"2", "3", "4", "5", "6", "7", "8", "9", "T", "J", "Q", "K", "A", "t", "j", "q", "k", "a"}
SuitChars == {"h", "d", "c", "s", "H", "D", "C", "S"}

\* s is a rank char followed by a suit char.
CardText(s) == Len(s) = 2 /\ s[1] \in RankChars /\ s[2] \in SuitChars

\* What the claim allows Hand::from_str(s) to return: never an abort; an
\* error unless s is two card texts; DuplicateCard when the two are one card.
HandParsed(s, ret) ==
    /\ ret.kind \in {"Ok", "Err"}
    /\ ~(Len(s) = 4 /\ CardText(SubSeq(s, 1, 2)) /\ CardText(SubSeq(s, 3, 4))) => ret.kind = "Err"
    /\ (Len(s) = 4 /\ CardText(SubSeq(s, 1, 2)) /\ CardText(SubSeq(s, 3, 4))
          /\ Card_from_str(SubSeq(s, 1, 2)) = Card_from_str(SubSeq(s, 3, 4))) =>
           ret = [kind |-> "Err", err |-> "DuplicateCard"]

\* C15: Card::from_str returns Ok exactly for a rank char followed by a suit
\* char and the InvalidCard error, never an abort, for every other string,
\* non-ASCII ones included; Hand::from_str returns an error for every string
\* that is not two such cards and DuplicateCard when the two cards are equal.
C15_ParsingNeverAborts ==
    /\ (call.fn = "Card::from_str" /\ call.done) =>
           IF CardText(call.s) THEN call.ret.kind = "Ok"
           ELSE call.ret = [kind |-> "Err", err |-> "InvalidCard"]
    /\ call.fn = "Hand::from_str" =>
           \A k \in 1..call.calls : HandParsed(call.strs[k], call.rets[k])


\* The amount the action of the call commits.
C17_Amount ==
    Action_amount(call.action, call.state.pot_size, call.state.effective_stack, call.state.to_call)

\* C17: apply_action makes Fold and Call terminal; Check terminal for IP and,
\* for OOP, a successor with position IP and pot_size, effective_stack and
\* to_call as they were; Bet, Raise and AllIn a non-terminal successor with
\* the pot increased and the stack decreased by Action::amount, to_call equal
\* to that amount and the position toggled.
C17_ApplyAction ==
    (call.fn = "apply_action" /\ call.done) =>
        /\ call.action.tag \in {"Fold", "Call"} => (call.ret.is_terminal /\ ~call.ret.next.some)
        /\ (call.action.tag = "Check" /\ call.state.position = IP) =>
               (call.ret.is_terminal /\ ~call.ret.next.some)
        /\ (call.action.tag = "Check" /\ call.state.position = OOP) =>
               /\ ~call.ret.is_terminal
               /\ call.ret.next.some
               /\ call.ret.next.v.position = IP
               /\ call.ret.next.v.pot_size = call.state.pot_size
               /\ call.ret.next.v.effective_stack = call.state.effective_stack
               /\ call.ret.next.v.to_call = call.state.to_call
        /\ call.action.tag \in {"Bet", "Raise", "AllIn"} =>
               /\ ~call.ret.is_terminal
               /\ call.ret.next.some
               /\ call.ret.next.v.pot_size = QAdd(call.state.pot_size, C17_Amount)
               /\ call.ret.next.v.effective_stack = QSub(call.state.effective_stack, C17_Amount)
               /\ call.ret.next.v.to_call = C17_Amount
               /\ call.ret.next.v.position # call.state.position
               /\ call.ret.next.v.position \in {IP, OOP}

\* apply_action has applied a raise of 5 + 10 / 2 made in position by hero
\* facing a bet of 5: the pot is 20, the stack 90 and OOP is to act.
C17_Witness ==
    /\ call.fn = "apply_action"
    /\ call.done
    /\ call.action = Raise(PotFraction(Q(1, 2)))
    /\ call.state.position = IP
    /\ call.state.to_call = Q(5, 1)
    /\ call.state.effective_stack = Q(100, 1)
    /\ call.ret.next.v.pot_size = Q(20, 1)
    /\ call.ret.next.v.effective_stack = Q(90, 1)
    /\ call.ret.next.v.to_call = Q(10, 1)
    /\ call.ret.next.v.position = OOP


\* traverse has returned from a node whose only action is a.
Returned_After(a) ==
    /\ call.fn = "traverse"
    /\ call.done
    /\ call.ret.ok
    /\ call.state.available_actions = <<a>>

\* C18: a Fold gives the pot to the non-folder whatever the hands: traverse
\* returns the current pot when the opponent folds, and the utility of the
\* traverser's own Fold is 0.
C18_FoldForfeitsPot ==
    /\ (Returned_After(Fold) /\ call.state.position # call.traverser) =>
           call.ret.util = call.state.pot_size
    /\ (Returned_After(Fold) /\ call.state.position = call.traverser) =>
           call.ret.util = Zero


\* The traverser's hand scores higher than, or the same as, the opponent's.
TraverserStronger == evaluate_hand(call.hero_hand, call.state.board) > evaluate_hand(call.villain_hand, call.state.board)
TraverserLevel == evaluate_hand(call.hero_hand, call.state.board) = evaluate_hand(call.villain_hand, call.state.board)

\* The pot a showdown may be settled over: the pot of the node, or after a
\* Call the pot with the called amount.
ShowdownPots ==
    {call.state.pot_size} \cup
    (IF call.state.available_actions = <<Call>> THEN {QAdd(call.state.pot_size, call.state.to_call)} ELSE {})

\* traverse has returned from a node whose only action leads to a showdown:
\* a Call, or a Check by the player in position.
Returned_Showdown ==
    Returned_After(Call) \/ (Returned_After(Check) /\ call.state.position = IP)

\* C19: at a showdown the traverser's utility is the pot when the traverser's
\* hand is stronger, half the pot on a tie and 0 when it is weaker, whichever
\* player closed the hand and whichever position is to act.
C19_ShowdownByStrength ==
    Returned_Showdown =>
        IF TraverserStronger THEN call.ret.util \in ShowdownPots
        ELSE IF TraverserLevel THEN call.ret.util \in {QDiv(p, Q(2, 1)) : p \in ShowdownPots}
        ELSE call.ret.util = Zero

\* C20: a showdown reached by a Call is settled over pot_size + to_call of
\* the state the Call was made in: the payoff is that sum, half of it, or 0.
C20_CallGrowsPot ==
    Returned_After(Call) =>
        call.ret.util \in {Zero, QAdd(call.state.pot_size, call.state.to_call),
                           QDiv(QAdd(call.state.pot_size, call.state.to_call), Q(2, 1))}


\* C21: every information-set key built in a traversal (each is entered in
\* the table by get_strategy) holds hero's hole cards when its position is
\* hero's root position and a hand of the villain range otherwise, in even
\* and in odd iterations alike.
C21_KeyHoldsActorsHand ==
    pc \in {"iter", "sample", "done"} =>
        \A key \in DOMAIN regret_table.regrets :
            IF key.position = state.position
            THEN key.hero_hand = state.hero_hand
            ELSE key.hero_hand \in DOMAIN state.villain_range.hands


\* The key traverse builds at the root of the call: the actor's hand is
\* hero_hand for the traverser and villain_hand for the opponent.
CallKey ==
    InfoSetKey_from_game_state(
        [call.state EXCEPT !.hero_hand = IF call.state.position = call.traverser
                                         THEN call.hero_hand ELSE call.villain_hand])

\* traverse has been called at a node of the traverser / of the opponent.
Traversed_Own == call.fn = "traverse" /\ call.done /\ call.state.position = call.traverser
Traversed_Other == call.fn = "traverse" /\ call.done /\ call.state.position # call.traverser


\* What traverse returns at the root of the call when the opponent takes
\* the action a: the outcome of that one child, the root key being entered
\* by get_strategy and one number drawn.
OneChild(a) ==
    OpponentAct(call.state, call.traverser, call.hero_hand, call.villain_hand,
                get_strategy(RegretTable_new, CallKey, Len(ActionsOf(call.state))).table,
                Gen(call.sampler).sampler, a)

\* C22: a node of the traverser explores every action and then calls
\* update_regrets once for its key, with reach probability 1.0 and the
\* increments u_i - sum_j sigma_j * u_j (which sigma, uniform on an empty
\* table, weights to 0); a node of the opponent explores one sampled action,
\* returns that child's utility and never calls update_regrets for its key.
C22_TraverserUpdatesOnce ==
    /\ Traversed_Own =>
           /\ call.ret.ok
           /\ CallKey \in DOMAIN call.ret.table.strategy_sum
           /\ Len(call.ret.table.regrets[CallKey]) = Len(ActionsOf(call.state))
           /\ QSum(call.ret.table.regrets[CallKey]) = Zero
    /\ Traversed_Other =>
           /\ call.ret.ok
           /\ CallKey \notin DOMAIN call.ret.table.strategy_sum
           /\ \E k \in 1..Len(ActionsOf(call.state)) : call.ret = OneChild(ActionsOf(call.state)[k])


\* The latest call on the table was update_regrets on a key that is new or
\* whose stored vectors have the length of new_regrets.
Updated_Key ==
    /\ call.fn = "RegretTable"
    /\ call.last.op = "update_regrets"
    /\ call.last.key \in DOMAIN call.last.table.regrets =>
           Len(call.last.table.regrets[call.last.key]) = Len(call.last.new_regrets)
    /\ call.last.key \in DOMAIN call.last.table.strategy_sum =>
           Len(call.last.table.strategy_sum[call.last.key]) = Len(call.last.new_regrets)

\* The vector stored for the key of the latest call before that call, a
\* new key counting as the zero vector.
StoredBefore(map) ==
    IF call.last.key \in DOMAIN map THEN map[call.last.key]
    ELSE [k \in 1..Len(call.last.new_regrets) |-> Zero]

KeysOf(node) ==
    {InfoSetKey_from_game_state([node EXCEPT !.hero_hand = h]) :
         h \in {state.hero_hand} \cup DOMAIN state.villain_range.hands}

\* C24: throughout a solve, the regret vector and the strategy-sum vector
\* stored for a key have the same length, and that length is the number of
\* actions of every decision node that maps to the key, so that the
\* strategy get_strategy returns at a node has one entry per action of it.
C24_OneLengthPerKey ==
    pc \in {"iter", "sample", "done"} =>
        \A key \in DOMAIN regret_table.regrets :
            /\ key \in DOMAIN regret_table.strategy_sum =>
                   Len(regret_table.strategy_sum[key]) = Len(regret_table.regrets[key])
            /\ \A node \in DecisionNodes(RootOf(state), MaxDepth) :
                   key \in KeysOf(node) =>
                       Len(regret_table.regrets[key]) = Len(ActionsOf(node))


\* The thresholds is_converged is asked about.
Thresholds == {Zero, Q(1, 1000), Q(1, 2), One, F64_MAX}

\* The info sets with an average strategy both now and at the previous
\* check, when the latest call was check_convergence.
SeenBefore ==
    IF call.last.checked.some
    THEN DOMAIN call.table.strategy_sum \cap DOMAIN call.last.checked.v.strategy_sum
    ELSE {}

\* The absolute differences, component by component, between the average
\* strategy of key now and at the previous check.
ChangesOf(key) ==
    {QAbs(QSub(get_average_strategy(call.table, key).v[k],
               get_average_strategy(call.last.checked.v, key).v[k])) :
         k \in 1..Len(call.table.strategy_sum[key])}

\* The largest change over the info sets seen before, 0 if there is none.
LargestChange == QSetMax({Zero} \cup UNION {ChangesOf(key) : key \in SeenBefore})

\* C25: a new tracker is converged for no threshold; check_convergence
\* stores as max_change the largest absolute component-wise difference
\* between each info set's average strategy and the one it had at the
\* previous check, info sets met for the first time contributing nothing, so
\* that the first check and a check of an unchanged table give 0; and
\* is_converged(t) holds exactly when max_change < t.
C25_ConvergenceTracker ==
    call.fn = "RegretTable" =>
        /\ ~call.checked.some => \A t \in Thresholds : ~is_converged(call.tracker, t)
        /\ call.last.op = "check_convergence" =>
               /\ call.tracker.max_change = LargestChange
               /\ ~call.last.checked.some => call.tracker.max_change = Zero
               /\ (call.last.checked.some /\ call.last.checked.v = call.table) =>
                      call.tracker.max_change = Zero
               /\ \A t \in Thresholds : is_converged(call.tracker, t) <=> QLt(LargestChange, t)

\* A second check after an update that moved the average strategy of a key
\* from (1, 0) to (2/3, 1/3) while a second key has appeared: max_change is
\* 1/3, converged for the threshold 1/2 and not for 1/1000.
C25_Witness ==
    /\ call.fn = "RegretTable"
    /\ call.last.op = "check_convergence"
    /\ call.last.checked.some
    /\ SeenBefore # DOMAIN call.table.strategy_sum
    /\ call.tracker.max_change = Q(1, 3)
    /\ is_converged(call.tracker, Q(1, 2))
    /\ ~is_converged(call.tracker, Q(1, 1000))


\* The bet and raise sizes of the root's action list are positive.
PositiveSizes(root) ==
    \A k \in 1..Len(root.available_actions) :
        root.available_actions[k].tag \in {"Bet", "Raise"} =>
            QLt(Zero, root.available_actions[k].size.v)

\* C26: from every valid root whose list has positive bet and raise sizes,
\* every path of the game tree reaches a terminal (fold, call or closing
\* check) after at most 3 actions: no decision node lies 3 actions deep.
C26_TreeDepth ==
    (call.fn = "descend" /\ PositiveSizes(call.root)) =>
        /\ Len(call.path) <= 3
        /\ call.node.some => Len(call.path) < 3

\* The longest path: the root checks out of position, the opponent bets
\* half the pot, and the call ends the hand.
C26_Witness ==
    /\ call.fn = "descend"
    /\ PositiveSizes(call.root)
    /\ ~call.node.some
    /\ call.path = <<Check, Bet(PotFraction(Q(1, 2))), Call>>


\* A state below the root of the tree has been reached.
Successor == call.fn = "descend" /\ call.path # <<>> /\ call.node.some

\* C27 as stated: every successor state that apply_action produces from a
\* state accepted by GameState::new, and every state reached by further
\* actions, has pot_size > 0, effective_stack > 0 and
\* 0 <= to_call <= effective_stack.
C27_AsStated ==
    Successor =>
        /\ QLt(Zero, call.node.v.pot_size)
        /\ QLt(Zero, call.node.v.effective_stack)
        /\ QLe(Zero, call.node.v.to_call)
        /\ QLe(call.node.v.to_call, call.node.v.effective_stack)


\* C28: a caller's available_actions apply at the root only: every state
\* below the root carries an empty list, so every decision node below the
\* root, and a root with an empty list, acts on exactly [Fold, Call] when
\* to_call > 0 and on exactly [Check, Bet(half pot)] when to_call = 0.
C28_DefaultsBelowRoot ==
    (call.fn = "descend" /\ call.node.some) =>
        /\ call.path # <<>> => call.node.v.available_actions = <<>>
        /\ (call.path # <<>> \/ call.root.available_actions = <<>>) =>
               ActionsOf(call.node.v) =
                   IF QLt(Zero, call.node.v.to_call) THEN <<Fold, Call>>
                   ELSE <<Check, Bet(PotFraction(Q(1, 2)))>>

\* The node after a raise taken from a caller's list, which faces a bet
\* and acts on [Fold, Call].
C28_Witness ==
    /\ call.fn = "descend"
    /\ call.node.some
    /\ call.root.available_actions = <<Raise(Amount(Q(2, 1)))>>
    /\ call.path = call.root.available_actions
    /\ QLt(Zero, call.node.v.to_call)
    /\ ActionsOf(call.node.v) = <<Fold, Call>>


\* A hand in canonical order: the higher rank first, and of a pair the
\* lower suit first in the order Hearts < Diamonds < Clubs < Spades.
CanonicalOrder(hand) ==
    \/ hand[1][1] > hand[2][1]
    \/ hand[1][1] = hand[2][1] /\ \E lo, hi \in 1..4 :
           /\ lo < hi
           /\ hand[1][2] = <<Hearts, Diamonds, Clubs, Spades>>[lo]
           /\ hand[2][2] = <<Hearts, Diamonds, Clubs, Spades>>[hi]

\* C29: a Range built by from_notation holds only keys in canonical order,
\* remove_blockers keeps it so, and contains(h) is true exactly when the
\* range holds the combo of h's two cards, in whichever order h lists them.
C29_CanonicalKeys ==
    (call.fn = "Range" /\ call.stage = "built") =>
        /\ \A h \in DOMAIN call.self.hands : CanonicalOrder(h)
        /\ call.hand # <<>> =>
               (call.found <=> \E h \in DOMAIN call.self.hands :
                                   {h[1], h[2]} = {call.hand[1], call.hand[2]})

\* pokers listed the pair as As Ah and the other hand as Kd Ac; after
\* remove_blockers the range still holds Ah As, and contains found it when
\* asked for As Ah.
C29_Witness ==
    /\ call.fn = "Range"
    /\ call.stage = "built"
    /\ call.combos = <<<<49, 48, 100>>, <<47, 50, 50>>>>
    /\ call.removed
    /\ DOMAIN call.self.hands = {Hand_new(Deck.Ah, Deck.As)}
    /\ call.hand = Hand_new(Deck.As, Deck.Ah)
    /\ call.found


\* The entries of the root key, the key the output is extracted from, in a
\* table: its regrets and its strategy sum, empty while it has none.
RootEntry(table) ==
    <<IF RootKey \in DOMAIN table.regrets THEN table.regrets[RootKey] ELSE <<>>,
      IF RootKey \in DOMAIN table.strategy_sum THEN table.strategy_sum[RootKey] ELSE <<>>>>

\* Hero in position against a non-empty range, the call not aborted.
HeroInPosition == state.position = IP /\ num_combos(state.villain_range) > 0 /\ pc # "panic"

\* The traversals made so far in even-numbered iterations: all samples of
\* the even iterations below i, and the j samples of iteration i if even.
EvenTraversals ==
    ((i + 1) \div 2) * config.samples_per_iteration + (IF pc = "sample" /\ i % 2 = 0 THEN j ELSE 0)

\* The traversal the inner loop is about to make, sh being the sample.
NextTraversal(sh) ==
    traverse(RootOf(state), TraverserOf(state, i), state.hero_hand, sh.hand, regret_table,
             sh.sampler)

\* The next traversal returns and leaves the root key's entries as they are.
LeavesRootEntry(tr) == tr.ok /\ RootEntry(tr.table) = RootEntry(regret_table)

====
